---------------------------- MODULE Spec2Model ----------------------------
(***************************************************************************)
(* State-machine model of github.com/davidpogosian/ds: the mutex-guarded   *)
(* generic containers (BST, PriorityQueue, List, Stack, Queue, Set).       *)
(*                                                                         *)
(* Pointers are node identifiers into a per-container node store; NIL is   *)
(* the nil pointer.  A nil dereference is a Go run-time panic: operators   *)
(* that can hit one return a "panic" flag and the action records it in     *)
(* `fault`; an unrecovered panic ends the program, so no operation runs    *)
(* once fault is set.                                                      *)
(***************************************************************************)
EXTENDS Integers, Sequences, FiniteSets, Bags, TLC

(***************************************************************************)
(* Bounds of the model.                                                    *)
(***************************************************************************)
MaxKey == 3
MaxIns == 5
MaxPrio == 3
MaxEnq == 4
Threads == 2
Reps == 2
MaxItems == 3
MaxQueued == 5
MaxSlice == 2

NIL == 0
Keys == 1..MaxKey
Vals == {10, 20}
Prios == 1..MaxPrio
Items == {1, 2}
Insts == {1, 2}
ThreadIds == 1..Threads
ZeroValue == 0

VARIABLES
    bst,      \* the BST instance: [root, nodes, size]
    fault,    \* TRUE once a call has panicked (nil dereference)
    nIns,     \* history: BST Insert calls completed since construction/Clear
    nRem,     \* history: BST Remove calls that returned a nil error since then
    pq,       \* the PriorityQueue instance: [heap, size, minHeap]
    pending,  \* history: bag of <<priority, value>> enqueued and not yet extracted
    drained,  \* history: priorities returned by the ExtractTops since the last Enqueue/Clear
    nEnq,     \* history: Enqueue calls since construction/Clear
    nExt,     \* history: ExtractTop calls that returned a nil error since then
    lst,      \* the List instance: [front, back, size, nodes]
    stk,      \* the Stack instance: [items]
    que,      \* the Queue instance: [items, front, rear, size]
    sets,     \* the two Set instances: sets[i] = [items, size]
    cp,       \* a container and its Copy(), with the memory both live in
    aque,     \* the append-based Queue of queue/queue.go: [items, front, rear]
    hist,     \* history of a sequential container: [seq, grewWrapped]
    kind,     \* which container type the threads share
    mu,       \* mu[i]: the thread holding instance i's mutex, 0 when unlocked
    pc,       \* pc[t]: where thread t is inside its current call
    call,     \* call[t]: the method thread t is in (NoCall between calls)
    snap,     \* snap[t]: the fields thread t has read inside its critical section
    res,      \* res[t]: what thread t's last call returned: [err, val]
    iter      \* iter[t]: rounds thread t has started of its ConcurrentOperations loop

bstVars == <<bst, nIns, nRem>>
pqVars == <<pq, pending, drained, nEnq, nExt>>
contVars == <<lst, stk, que, aque, sets, cp, hist>>
thrVars == <<kind, mu, pc, call, snap, res, iter>>
vars == <<bstVars, pqVars, contVars, thrVars, fault>>

(***************************************************************************)
(* comparators.ComparatorInt                                               *)
(***************************************************************************)
Comparator(a, b) == IF a < b THEN -1 ELSE IF a > b THEN 1 ELSE 0

(***************************************************************************)
(* BST                                                                     *)
(***************************************************************************)
NewNode(key, val) == [key |-> key, val |-> val, left |-> NIL, right |-> NIL]

BSTNewEmpty == [root |-> NIL, nodes |-> <<>>, size |-> 0]

\* The address the allocator hands out for a new node: one no live node has.
FreshId(nodes) == Len(nodes) + 1

\* The nodes reachable from pointer p, in pre-order.
RECURSIVE ReachFrom(_, _)
ReachFrom(nodes, p) ==
    IF p = NIL THEN <<>>
    ELSE <<p>> \o ReachFrom(nodes, nodes[p].left) \o ReachFrom(nodes, nodes[p].right)

\* Garbage collection: only the nodes reachable from root stay in the store.
\* Addresses are not observable by the program, so the live nodes are
\* renumbered 1..n in pre-order (root, when present, is node 1).
Collect(root, nodes) ==
    LET live == ReachFrom(nodes, root)
        addr(p) == IF p = NIL THEN NIL ELSE CHOOSE i \in 1..Len(live) : live[i] = p
    IN  [root  |-> addr(root),
         nodes |-> [i \in 1..Len(live) |->
                      [key   |-> nodes[live[i]].key,
                       val   |-> nodes[live[i]].val,
                       left  |-> addr(nodes[live[i]].left),
                       right |-> addr(nodes[live[i]].right)]]]

\* A BST value from its fields, after collection.
MkBST(root, nodes, size) ==
    LET c == Collect(root, nodes) IN [root |-> c.root, nodes |-> c.nodes, size |-> size]

\* Insert, line 56: the new key goes left exactly when it compares -1.
GoesLeftMutant(comparison) == comparison = 1
GoesLeft(comparison) == comparison = -1

\* Insert, lines 53-73: the descent from cursor that links node n in.
RECURSIVE InsertWalk(_, _, _)
InsertWalk(nodes, cursor, n) ==
    IF GoesLeft(Comparator(nodes[n].key, nodes[cursor].key))
    THEN IF nodes[cursor].left = NIL
         THEN [nodes EXCEPT ![cursor].left = n]
         ELSE InsertWalk(nodes, nodes[cursor].left, n)
    ELSE IF nodes[cursor].right = NIL
         THEN [nodes EXCEPT ![cursor].right = n]
         ELSE InsertWalk(nodes, nodes[cursor].right, n)

\* A BST value from its fields, in the store as the method left it.
Tree(root, nodes, size) == [root |-> root, nodes |-> nodes, size |-> size]

\* The tree with its store collected.
Gc(b) == MkBST(b.root, b.nodes, b.size)

\* Insert, lines 43-76, on the store b.nodes (which may hold other trees'
\* nodes too): [b |-> the tree afterwards, panic |-> cursor.key read through nil].
BSTInsertHeap(b, key, val) ==
    LET n == FreshId(b.nodes)
        withN == Append(b.nodes, NewNode(key, val))
    IN  IF b.size = 0
        THEN [b |-> Tree(n, withN, b.size + 1), panic |-> FALSE]
        ELSE IF b.root = NIL
        THEN [b |-> b, panic |-> TRUE]
        ELSE [b |-> Tree(b.root, InsertWalk(withN, b.root, n), b.size + 1),
              panic |-> FALSE]

\* Insert: [b |-> the tree afterwards, panic |-> cursor.key read through nil].
BSTInsert(b, key, val) ==
    LET r == BSTInsertHeap(b, key, val)
    IN  [b |-> IF r.panic THEN b ELSE Gc(r.b), panic |-> r.panic]

\* Search, line 90: the descent stops at a node whose key compares 0.
SearchHitMutant(comparison) == comparison >= 0
SearchHit(comparison) == comparison = 0

\* A Search that goes on to the right after a hit and returns the value of
\* the last equal-key node it meets.
RECURSIVE SearchWalkMutant(_, _, _)
SearchWalkMutant(nodes, cursor, key) ==
    IF cursor = NIL THEN [err |-> TRUE, val |-> ZeroValue]
    ELSE IF Comparator(key, nodes[cursor].key) = -1
    THEN SearchWalkMutant(nodes, nodes[cursor].left, key)
    ELSE IF Comparator(key, nodes[cursor].key) = 1
    THEN SearchWalkMutant(nodes, nodes[cursor].right, key)
    ELSE IF SearchWalkMutant(nodes, nodes[cursor].right, key).err
    THEN [err |-> FALSE, val |-> nodes[cursor].val]
    ELSE SearchWalkMutant(nodes, nodes[cursor].right, key)

\* Search, lines 83-97: [err, val]; no field of the tree is assigned.
RECURSIVE SearchWalk(_, _, _)
SearchWalk(nodes, cursor, key) ==
    IF cursor = NIL THEN [err |-> TRUE, val |-> ZeroValue]
    ELSE LET comparison == Comparator(key, nodes[cursor].key)
         IN  IF comparison = -1 THEN SearchWalk(nodes, nodes[cursor].left, key)
             ELSE IF SearchHit(comparison)
             THEN [err |-> FALSE, val |-> nodes[cursor].val]
             ELSE SearchWalk(nodes, nodes[cursor].right, key)

BSTSearch(b, key) == SearchWalk(b.nodes, b.root, key)

\* removeHelper, lines 112-117: the rightmost node of the left subtree and its parent.
RECURSIVE Rightmost(_, _, _)
Rightmost(nodes, replacementParent, replacement) ==
    IF nodes[replacement].right # NIL
    THEN Rightmost(nodes, replacement, nodes[replacement].right)
    ELSE [replacementParent |-> replacementParent, replacement |-> replacement]

\* removeHelper without replacementParent.right = nil.
RemoveHelperNodesMutant(nodes, n) ==
    IF nodes[n].left = NIL /\ nodes[n].right = NIL THEN [nodes |-> nodes, repl |-> NIL]
    ELSE IF nodes[n].left = NIL THEN [nodes |-> nodes, repl |-> nodes[n].right]
    ELSE IF nodes[n].right = NIL THEN [nodes |-> nodes, repl |-> nodes[n].left]
    ELSE LET r  == Rightmost(nodes, n, nodes[n].left).replacement
             n1 == [nodes EXCEPT ![r].right = nodes[n].right]
         IN  [nodes |-> IF n1[n].left # r THEN [n1 EXCEPT ![r].left = n1[n].left] ELSE n1,
              repl |-> r]

\* removeHelper without its size decrement: [nodes, repl], repl replacing node n.
RemoveHelperNodes(nodes, n) ==
    IF nodes[n].left = NIL /\ nodes[n].right = NIL THEN [nodes |-> nodes, repl |-> NIL]
    ELSE IF nodes[n].left = NIL THEN [nodes |-> nodes, repl |-> nodes[n].right]
    ELSE IF nodes[n].right = NIL THEN [nodes |-> nodes, repl |-> nodes[n].left]
    ELSE LET w  == Rightmost(nodes, n, nodes[n].left)
             r  == w.replacement
             rp == w.replacementParent
             n1 == [nodes EXCEPT ![r].right = nodes[n].right]
             n2 == IF n1[n].left # r THEN [n1 EXCEPT ![r].left = n1[n].left] ELSE n1
             n3 == [n2 EXCEPT ![rp].right = NIL]
         IN  [nodes |-> n3, repl |-> r]

\* removeHelper, line 103: the size decrement.
SizeAfterRemoveMutant(size) == size
SizeAfterRemove(size) == size - 1

\* Remove, lines 131-166: the descent.  [b, err, val].
RECURSIVE RemoveWalk(_, _, _)
RemoveWalk(b, cursor, key) ==
    LET nodes == b.nodes
        miss  == [b |-> b, err |-> TRUE, val |-> ZeroValue]
        comparison == Comparator(key, nodes[cursor].key)
    IN  IF comparison = -1
        THEN IF nodes[cursor].left = NIL THEN miss
             ELSE IF Comparator(key, nodes[nodes[cursor].left].key) = 0
             THEN LET removeNode == nodes[cursor].left
                      h == RemoveHelperNodes(nodes, removeNode)
                      linked == [h.nodes EXCEPT ![cursor].left = h.repl]
                  IN  [b |-> Tree(b.root, linked, SizeAfterRemove(b.size)),
                       err |-> FALSE, val |-> nodes[removeNode].val]
             ELSE RemoveWalk(b, nodes[cursor].left, key)
        ELSE IF comparison = 0
        THEN LET h == RemoveHelperNodes(nodes, b.root)
             IN  [b |-> Tree(h.repl, h.nodes, SizeAfterRemove(b.size)),
                  err |-> FALSE, val |-> nodes[cursor].val]
        ELSE IF nodes[cursor].right = NIL THEN miss
             ELSE IF Comparator(key, nodes[nodes[cursor].right].key) = 0
             THEN LET removeNode == nodes[cursor].right
                      h == RemoveHelperNodes(nodes, removeNode)
                      linked == [h.nodes EXCEPT ![cursor].right = h.repl]
                  IN  [b |-> Tree(b.root, linked, SizeAfterRemove(b.size)),
                       err |-> FALSE, val |-> nodes[removeNode].val]
             ELSE RemoveWalk(b, nodes[cursor].right, key)

\* Remove, lines 128-167, on the store b.nodes: [b, err, val].
BSTRemoveHeap(b, key) ==
    IF b.root = NIL THEN [b |-> b, err |-> TRUE, val |-> ZeroValue]
    ELSE RemoveWalk(b, b.root, key)

BSTRemove(b, key) ==
    LET r == BSTRemoveHeap(b, key)
    IN  [b |-> IF r.err THEN b ELSE Gc(r.b), err |-> r.err, val |-> r.val]

BSTSize(b) == b.size

BSTClear(b) == [root |-> NIL, nodes |-> <<>>, size |-> 0]

\* FindMin / FindMax: [err, key, panic]; panic is cursor.left read through nil.
RECURSIVE Leftmost(_, _)
Leftmost(nodes, cursor) ==
    IF nodes[cursor].left # NIL THEN Leftmost(nodes, nodes[cursor].left) ELSE cursor

RECURSIVE RightmostOf(_, _)
RightmostOf(nodes, cursor) ==
    IF nodes[cursor].right # NIL THEN RightmostOf(nodes, nodes[cursor].right) ELSE cursor

BSTFindMinMutant(b) ==
    IF b.size = 0 THEN [err |-> TRUE, key |-> ZeroValue, panic |-> FALSE]
    ELSE IF b.root = NIL THEN [err |-> FALSE, key |-> ZeroValue, panic |-> TRUE]
    ELSE [err |-> FALSE, key |-> b.nodes[b.root].key, panic |-> FALSE]
BSTFindMin(b) ==
    IF b.size = 0 THEN [err |-> TRUE, key |-> ZeroValue, panic |-> FALSE]
    ELSE IF b.root = NIL THEN [err |-> FALSE, key |-> ZeroValue, panic |-> TRUE]
    ELSE [err |-> FALSE, key |-> b.nodes[Leftmost(b.nodes, b.root)].key, panic |-> FALSE]

BSTFindMax(b) ==
    IF b.size = 0 THEN [err |-> TRUE, key |-> ZeroValue, panic |-> FALSE]
    ELSE IF b.root = NIL THEN [err |-> FALSE, key |-> ZeroValue, panic |-> TRUE]
    ELSE [err |-> FALSE, key |-> b.nodes[RightmostOf(b.nodes, b.root)].key, panic |-> FALSE]

\* InOrderTraversal, lines 212-225: the explicit-stack loop.
RECURSIVE InOrderLoop(_, _, _, _)
InOrderLoop(nodes, current, stack, slice) ==
    IF current # NIL
    THEN InOrderLoop(nodes, nodes[current].left, Append(stack, current), slice)
    ELSE IF Len(stack) > 0
    THEN LET top == stack[Len(stack)]
         IN  InOrderLoop(nodes, nodes[top].right, SubSeq(stack, 1, Len(stack) - 1),
                         Append(slice, nodes[top].key))
    ELSE slice

BSTInOrderTraversal(b) == InOrderLoop(b.nodes, b.root, <<>>, <<>>)

\* if first != nil { stack = append(stack, first) }
\* if second != nil { stack = append(stack, second) }
PushBothMutant(stack, first, second) ==
    LET s1 == IF second # NIL THEN Append(stack, second) ELSE stack
    IN  IF first # NIL THEN Append(s1, first) ELSE s1
PushBoth(stack, first, second) ==
    LET s1 == IF first # NIL THEN Append(stack, first) ELSE stack
    IN  IF second # NIL THEN Append(s1, second) ELSE s1

\* PreOrderTraversal, lines 237-247: pop a node, emit its key, push right then left.
RECURSIVE PreOrderLoop(_, _, _)
PreOrderLoop(nodes, stack, slice) ==
    IF Len(stack) = 0 THEN slice
    ELSE LET node == stack[Len(stack)]
             s0 == SubSeq(stack, 1, Len(stack) - 1)
             s2 == PushBoth(s0, nodes[node].right, nodes[node].left)
         IN  PreOrderLoop(nodes, s2, Append(slice, nodes[node].key))

BSTPreOrderTraversal(b) ==
    IF b.root = NIL THEN <<>> ELSE PreOrderLoop(b.nodes, <<b.root>>, <<>>)

\* PostOrderTraversal, lines 258-270: the first loop moves nodes from s1 to s2,
\* pushing left then right.
RECURSIVE PostOrderFill(_, _, _)
PostOrderFill(nodes, s1, s2) ==
    IF Len(s1) = 0 THEN s2
    ELSE LET node == s1[Len(s1)]
             t0 == SubSeq(s1, 1, Len(s1) - 1)
             t2 == PushBoth(t0, nodes[node].left, nodes[node].right)
         IN  PostOrderFill(nodes, t2, Append(s2, node))

\* PostOrderTraversal, lines 271-275: the second loop pops s2 into the slice.
RECURSIVE PostOrderDrain(_, _, _)
PostOrderDrain(nodes, s2, slice) ==
    IF Len(s2) = 0 THEN slice
    ELSE PostOrderDrain(nodes, SubSeq(s2, 1, Len(s2) - 1),
                        Append(slice, nodes[s2[Len(s2)]].key))

BSTPostOrderTraversal(b) ==
    IF b.root = NIL THEN <<>>
    ELSE PostOrderDrain(b.nodes, PostOrderFill(b.nodes, <<b.root>>, <<>>), <<>>)

\* Height, lines 291-314: BFS over (node, level); the level of the last node dequeued.
\* Height, lines 302 and 308: a child is one level below its parent.
ChildLevelMutant(level) == level
ChildLevel(level) == level + 1

RECURSIVE HeightLoop(_, _, _)
HeightLoop(nodes, queue, height) ==
    IF Len(queue) = 0 THEN height
    ELSE LET front == queue[1]
             q1 == Tail(queue)
             q2 == IF nodes[front.node].left # NIL
                   THEN Append(q1, [node |-> nodes[front.node].left, level |-> ChildLevel(front.level)])
                   ELSE q1
             q3 == IF nodes[front.node].right # NIL
                   THEN Append(q2, [node |-> nodes[front.node].right, level |-> ChildLevel(front.level)])
                   ELSE q2
         IN  HeightLoop(nodes, q3, front.level)

BSTHeight(b) ==
    IF b.root = NIL THEN -1
    ELSE HeightLoop(b.nodes, <<[node |-> b.root, level |-> 0]>>, 0)

\* Copy, lines 340-349: copyNode allocates a node with the key and value of
\* node and no children.  [nodes, id] is the store afterwards and the new node.
CopyNode(nodes, node) ==
    IF node = NIL THEN [nodes |-> nodes, id |-> NIL]
    ELSE [nodes |-> Append(nodes, NewNode(nodes[node].key, nodes[node].val)),
          id    |-> FreshId(nodes)]

\* Copy, lines 358-378: the breadth-first loop over (original, copy) pairs.
RECURSIVE CopyLoop(_, _)
CopyLoop(nodes, queue) ==
    IF Len(queue) = 0 THEN nodes
    ELSE LET original == queue[1].original
             copy == queue[1].copy
             q0 == Tail(queue)
             l  == CopyNode(nodes, nodes[original].left)
             hasL == nodes[original].left # NIL
             n1 == IF hasL THEN [l.nodes EXCEPT ![copy].left = l.id] ELSE nodes
             q1 == IF hasL
                   THEN Append(q0, [original |-> nodes[original].left, copy |-> l.id])
                   ELSE q0
             r  == CopyNode(n1, n1[original].right)
             hasR == n1[original].right # NIL
             n2 == IF hasR THEN [r.nodes EXCEPT ![copy].right = r.id] ELSE n1
             q2 == IF hasR
                   THEN Append(q1, [original |-> n1[original].right, copy |-> r.id])
                   ELSE q1
         IN  CopyLoop(n2, q2)

\* Copy, lines 333-384, on the store b.nodes: the new tree, its nodes allocated
\* in the same store as the source's.
BSTCopyHeap(b) ==
    IF b.root = NIL THEN Tree(NIL, b.nodes, 0)
    ELSE LET c == CopyNode(b.nodes, b.root)
         IN  Tree(c.id, CopyLoop(c.nodes, <<[original |-> b.root, copy |-> c.id]>>), b.size)

BSTCopy(b) == Gc(BSTCopyHeap(b))

(***************************************************************************)
(* Go slices.                                                              *)
(***************************************************************************)
\* make([]T, n)
Zeros(n) == [i \in 1..n |-> ZeroValue]

\* for i, x := range src { dst[i] = x }, with Len(src) <= Len(dst)
CopyValues(dst, src) == [i \in 1..Len(dst) |-> IF i <= Len(src) THEN src[i] ELSE dst[i]]

\* Go's items[lo:hi].
Slice(items, lo, hi) == SubSeq(items, lo + 1, hi)

\* Go's copy(dst[off:], src): as many elements as both sides hold.
CopyInto(dst, off, src) ==
    [i \in 1..Len(dst) |->
        IF i > off /\ i - off <= Len(src) THEN src[i - off] ELSE dst[i]]

(***************************************************************************)
(* PriorityQueue.  The heap slice is a sequence; At reads Go index i.       *)
(***************************************************************************)
PQNewEmpty(minHeap) == [heap |-> <<>>, size |-> 0, minHeap |-> minHeap]

PQNode(p, v) == [p |-> p, v |-> v]

At(heap, index) == heap[index + 1]

\* heap[i], heap[j] = heap[j], heap[i]: whole nodes change places.
SwapMutant(heap, i, j) ==
    [heap EXCEPT ![i + 1] = [p |-> At(heap, j).p, v |-> At(heap, i).v],
                 ![j + 1] = [p |-> At(heap, i).p, v |-> At(heap, j).v]]
Swap(heap, i, j) == [heap EXCEPT ![i + 1] = At(heap, j), ![j + 1] = At(heap, i)]

\* heapifyUp that leaves the new node where append put it.
HeapifyUpMutant(heap, minHeap, index) == heap

\* heapifyUp, lines 49-64.
RECURSIVE HeapifyUp(_, _, _)
HeapifyUp(heap, minHeap, index) ==
    IF index > 0
    THEN LET parentIndex == (index - 1) \div 2
             comparison == Comparator(At(heap, index).p, At(heap, parentIndex).p)
         IN  IF (minHeap /\ comparison >= 0) \/ (~minHeap /\ comparison <= 0)
             THEN heap
             ELSE HeapifyUp(Swap(heap, index, parentIndex), minHeap, parentIndex)
    ELSE heap

\* Enqueue, lines 68-78.
PQEnqueue(q, p, v) ==
    LET heap == Append(q.heap, PQNode(p, v))
        size == q.size + 1
    IN  [heap |-> HeapifyUp(heap, q.minHeap, size - 1), size |-> size, minHeap |-> q.minHeap]

\* heapifyDown, lines 98-115: the index of the node that belongs on top among
\* index and its children inside the heap.
SmallestOrLargestMutant(heap, size, minHeap, index) ==
    LET leftChild  == 2 * index + 1
        rightChild == 2 * index + 2
        want == IF minHeap THEN -1 ELSE 1
        afterLeft == IF leftChild < size
                        /\ Comparator(At(heap, leftChild).p, At(heap, index).p) = want
                     THEN leftChild ELSE index
    IN  IF rightChild < size
           /\ Comparator(At(heap, rightChild).p, At(heap, index).p) = want
        THEN rightChild ELSE afterLeft
SmallestOrLargest(heap, size, minHeap, index) ==
    LET leftChild  == 2 * index + 1
        rightChild == 2 * index + 2
        want == IF minHeap THEN -1 ELSE 1
        afterLeft == IF leftChild < size
                        /\ Comparator(At(heap, leftChild).p, At(heap, index).p) = want
                     THEN leftChild ELSE index
    IN  IF rightChild < size
           /\ Comparator(At(heap, rightChild).p, At(heap, afterLeft).p) = want
        THEN rightChild ELSE afterLeft

\* heapifyDown, lines 96-122.
RECURSIVE HeapifyDown(_, _, _, _)
HeapifyDown(heap, size, minHeap, index) ==
    LET smallestOrLargest == SmallestOrLargest(heap, size, minHeap, index)
    IN  IF smallestOrLargest = index
        THEN heap
        ELSE HeapifyDown(Swap(heap, index, smallestOrLargest), size, minHeap,
                         smallestOrLargest)

\* Peek, lines 83-92: [err, p, v].
PQPeekMutant(q) ==
    IF q.size = 0 THEN [err |-> TRUE, p |-> ZeroValue, v |-> ZeroValue]
    ELSE [err |-> FALSE, p |-> At(q.heap, q.size - 1).p, v |-> At(q.heap, q.size - 1).v]
PQPeek(q) ==
    IF q.size = 0 THEN [err |-> TRUE, p |-> ZeroValue, v |-> ZeroValue]
    ELSE [err |-> FALSE, p |-> At(q.heap, 0).p, v |-> At(q.heap, 0).v]

\* ExtractTop, lines 127-142: [q, err, p, v].
PQExtractTopMutant(q) ==
    IF q.size = 0
    THEN [q |-> [q EXCEPT !.size = q.size - 1], err |-> TRUE, p |-> ZeroValue,
          v |-> ZeroValue]
    ELSE LET moved == [q.heap EXCEPT ![1] = At(q.heap, q.size - 1)]
             size  == q.size - 1
             cut   == SubSeq(moved, 1, size)
         IN  [q |-> [heap |-> HeapifyDown(cut, size, q.minHeap, 0), size |-> size,
                     minHeap |-> q.minHeap],
              err |-> FALSE, p |-> At(q.heap, 0).p, v |-> At(q.heap, 0).v]
PQExtractTop(q) ==
    IF q.size = 0
    THEN [q |-> q, err |-> TRUE, p |-> ZeroValue, v |-> ZeroValue]
    ELSE LET moved == [q.heap EXCEPT ![1] = At(q.heap, q.size - 1)]
             size  == q.size - 1
             cut   == SubSeq(moved, 1, size)
         IN  [q |-> [heap |-> HeapifyDown(cut, size, q.minHeap, 0), size |-> size,
                     minHeap |-> q.minHeap],
              err |-> FALSE, p |-> At(q.heap, 0).p, v |-> At(q.heap, 0).v]

\* Copy, lines 167-183: [q, panic]; newHeap has pq.size slots and the loop
\* writes one per element of pq.heap, so an element past size is an index
\* out of range.
PQCopy(q) ==
    IF Len(q.heap) > q.size
    THEN [q |-> q, panic |-> TRUE]
    ELSE [q |-> [heap |-> CopyValues(Zeros(q.size), q.heap), size |-> q.size,
                 minHeap |-> q.minHeap],
          panic |-> FALSE]

PQClear(q) == [heap |-> <<>>, size |-> 0, minHeap |-> q.minHeap]

PQSize(q) == q.size

PQIsEmpty(q) == q.size = 0

(***************************************************************************)
(* List: doubly-linked, nodes in a store as for the BST.                   *)
(***************************************************************************)
ListNode(val) == [val |-> val, next |-> NIL, prev |-> NIL]

ListNewEmpty == [front |-> NIL, back |-> NIL, size |-> 0, nodes |-> <<>>]

\* The nodes met following next from p, until nil or a node met before.
RECURSIVE NextChain(_, _, _)
NextChain(nodes, p, seen) ==
    IF p = NIL \/ (\E i \in 1..Len(seen) : seen[i] = p) THEN seen
    ELSE NextChain(nodes, nodes[p].next, Append(seen, p))

\* Everything reachable from the pointers in todo through next and prev.
RECURSIVE ListReach(_, _, _)
ListReach(nodes, todo, seen) ==
    LET new == (todo \ seen) \ {NIL}
    IN  IF new = {} THEN seen
        ELSE ListReach(nodes,
                       {nodes[p].next : p \in new} \cup {nodes[p].prev : p \in new},
                       seen \cup new)

RECURSIVE Ascending(_)
Ascending(S) ==
    IF S = {} THEN <<>>
    ELSE LET m == CHOOSE x \in S : \A y \in S : x <= y IN <<m>> \o Ascending(S \ {m})

\* Garbage collection of the list's node store, live nodes renumbered: the
\* next-chain from front first, then whatever else front and back still reach.
MkList(front, back, size, nodes) ==
    LET chain == NextChain(nodes, front, <<>>)
        rest  == ListReach(nodes, {front, back}, {}) \ {chain[i] : i \in 1..Len(chain)}
        live  == chain \o Ascending(rest)
        addr(p) == IF p = NIL THEN NIL ELSE CHOOSE i \in 1..Len(live) : live[i] = p
    IN  [front |-> addr(front), back |-> addr(back), size |-> size,
         nodes |-> [i \in 1..Len(live) |->
                      [val  |-> nodes[live[i]].val,
                       next |-> addr(nodes[live[i]].next),
                       prev |-> addr(nodes[live[i]].prev)]]]

\* insertFront, lines 55-66 (private, no lock).
ListInsertFrontInner(l, newItem) ==
    LET n == Len(l.nodes) + 1
        nodes == Append(l.nodes, ListNode(newItem))
    IN  IF l.size = 0
        THEN [front |-> n, back |-> n, size |-> l.size + 1, nodes |-> nodes]
        ELSE [front |-> n, back |-> l.back, size |-> l.size + 1,
              nodes |-> [nodes EXCEPT ![n].next = l.front, ![l.front].prev = n]]

\* insertBack, lines 76-87 (private, no lock).
ListInsertBackInner(l, newItem) ==
    LET n == Len(l.nodes) + 1
        nodes == Append(l.nodes, ListNode(newItem))
    IN  IF l.size = 0
        THEN [front |-> n, back |-> n, size |-> l.size + 1, nodes |-> nodes]
        ELSE [front |-> l.front, back |-> n, size |-> l.size + 1,
              nodes |-> [nodes EXCEPT ![n].prev = l.back, ![l.back].next = n]]

Canon(l) == MkList(l.front, l.back, l.size, l.nodes)

ListInsertFront(l, newItem) == Canon(ListInsertFrontInner(l, newItem))

ListInsertBack(l, newItem) == Canon(ListInsertBackInner(l, newItem))

\* NewFromSlice, lines 46-52: InsertBack of each item of the slice in turn.
RECURSIVE ListNewFromSliceLoop(_, _)
ListNewFromSliceLoop(l, slice) ==
    IF slice = <<>> THEN l
    ELSE ListNewFromSliceLoop(ListInsertBack(l, Head(slice)), Tail(slice))

ListNewFromSlice(slice) == ListNewFromSliceLoop(ListNewEmpty, slice)

\* cursor := l.front; for i := 0; i < steps; i++ { cursor = cursor.next }
RECURSIVE AdvanceMutant(_, _, _)
AdvanceMutant(nodes, cursor, steps) ==
    IF steps <= 1 THEN cursor ELSE AdvanceMutant(nodes, nodes[cursor].next, steps - 1)
RECURSIVE Advance(_, _, _)
Advance(nodes, cursor, steps) ==
    IF steps = 0 THEN cursor ELSE Advance(nodes, nodes[cursor].next, steps - 1)

\* InsertPosition, lines 98-121, on the store l.nodes: [l, err].
ListInsertPositionHeap(l, newItem, position) ==
    IF position < 0 \/ position > l.size THEN [l |-> l, err |-> TRUE]
    ELSE IF position = 0 THEN [l |-> ListInsertFrontInner(l, newItem), err |-> FALSE]
    ELSE IF position = l.size THEN [l |-> ListInsertBackInner(l, newItem), err |-> FALSE]
    ELSE LET cursor == Advance(l.nodes, l.front, position)
             n == Len(l.nodes) + 1
             n0 == Append(l.nodes, ListNode(newItem))
             n1 == [n0 EXCEPT ![n].prev = n0[cursor].prev]
             n2 == [n1 EXCEPT ![n1[cursor].prev].next = n]
             n3 == [n2 EXCEPT ![n].next = cursor]
             n4 == [n3 EXCEPT ![cursor].prev = n]
         IN  [l |-> [front |-> l.front, back |-> l.back, size |-> l.size + 1, nodes |-> n4],
              err |-> FALSE]

\* InsertPosition: [l, err].
ListInsertPosition(l, newItem, position) ==
    LET r == ListInsertPositionHeap(l, newItem, position)
    IN  [l |-> IF r.err THEN l ELSE Canon(r.l), err |-> r.err]

\* Get, lines 165-177: [err, val].
ListGetMutant(l, index) ==
    IF index < 0 \/ index > l.size THEN [err |-> TRUE, val |-> ZeroValue]
    ELSE IF index = l.size THEN [err |-> FALSE, val |-> ZeroValue]
    ELSE [err |-> FALSE, val |-> l.nodes[Advance(l.nodes, l.front, index)].val]
ListGet(l, index) ==
    IF index < 0 \/ index >= l.size THEN [err |-> TRUE, val |-> ZeroValue]
    ELSE [err |-> FALSE, val |-> l.nodes[Advance(l.nodes, l.front, index)].val]

\* removeFront that leaves the new front's prev pointing at the removed node.
ListRemoveFrontInnerMutant(l) ==
    IF l.size = 0 THEN [l |-> l, err |-> TRUE, val |-> ZeroValue]
    ELSE IF l.size = 1
    THEN [l |-> [front |-> NIL, back |-> NIL, size |-> l.size - 1, nodes |-> l.nodes],
          err |-> FALSE, val |-> l.nodes[l.front].val]
    ELSE [l |-> [front |-> l.nodes[l.front].next, back |-> l.back, size |-> l.size - 1,
                 nodes |-> l.nodes],
          err |-> FALSE, val |-> l.nodes[l.front].val]

\* removeFront, lines 209-224 (private, no lock): [l, err, val].
ListRemoveFrontInner(l) ==
    IF l.size = 0 THEN [l |-> l, err |-> TRUE, val |-> ZeroValue]
    ELSE IF l.size = 1
    THEN [l |-> [front |-> NIL, back |-> NIL, size |-> l.size - 1, nodes |-> l.nodes],
          err |-> FALSE, val |-> l.nodes[l.front].val]
    ELSE [l |-> [front |-> l.nodes[l.front].next, back |-> l.back, size |-> l.size - 1,
                 nodes |-> [l.nodes EXCEPT ![l.nodes[l.front].next].prev = NIL]],
          err |-> FALSE, val |-> l.nodes[l.front].val]

\* removeBack, lines 236-251 (private, no lock): [l, err, val].
ListRemoveBackInner(l) ==
    IF l.size = 0 THEN [l |-> l, err |-> TRUE, val |-> ZeroValue]
    ELSE IF l.size = 1
    THEN [l |-> [front |-> NIL, back |-> NIL, size |-> l.size - 1, nodes |-> l.nodes],
          err |-> FALSE, val |-> l.nodes[l.back].val]
    ELSE [l |-> [front |-> l.front, back |-> l.nodes[l.back].prev, size |-> l.size - 1,
                 nodes |-> [l.nodes EXCEPT ![l.nodes[l.back].prev].next = NIL]],
          err |-> FALSE, val |-> l.nodes[l.back].val]

CanonResult(r) == [l |-> Canon(r.l), err |-> r.err, val |-> r.val]

ListRemoveFront(l) == CanonResult(ListRemoveFrontInner(l))

ListRemoveBack(l) == CanonResult(ListRemoveBackInner(l))

\* RemovePosition, lines 263-286, on the store l.nodes: [l, err, val].
ListRemovePositionHeap(l, index) ==
    IF index < 0 \/ index >= l.size THEN [l |-> l, err |-> TRUE, val |-> ZeroValue]
    ELSE IF index = 0 THEN ListRemoveFrontInner(l)
    ELSE IF index = l.size - 1 THEN ListRemoveBackInner(l)
    ELSE LET cursor == Advance(l.nodes, l.front, index)
             n1 == [l.nodes EXCEPT ![l.nodes[cursor].prev].next = l.nodes[cursor].next]
             n2 == [n1 EXCEPT ![n1[cursor].next].prev = n1[cursor].prev]
         IN  [l |-> [front |-> l.front, back |-> l.back, size |-> l.size - 1, nodes |-> n2],
              err |-> FALSE, val |-> l.nodes[cursor].val]

\* RemovePosition: [l, err, val].
ListRemovePosition(l, index) ==
    LET r == ListRemovePositionHeap(l, index)
    IN  [l |-> IF r.err THEN l ELSE Canon(r.l), err |-> r.err, val |-> r.val]

\* Copy, lines 184-188: insertBack of each of the first size values into the
\* new list; cursor.val read through nil is a panic.
RECURSIVE ListCopyLoop(_, _, _)
ListCopyLoop(newList, cursor, rounds) ==
    IF rounds = 0 THEN [l |-> newList, panic |-> FALSE]
    ELSE IF cursor = NIL THEN [l |-> newList, panic |-> TRUE]
    ELSE ListCopyLoop(ListInsertBackInner(newList, newList.nodes[cursor].val),
                      newList.nodes[cursor].next, rounds - 1)

\* Copy, lines 180-191, on the store l.nodes: [l, panic], the new list's nodes
\* allocated in the same store as the source's.
ListCopyHeap(l) ==
    ListCopyLoop([front |-> NIL, back |-> NIL, size |-> 0, nodes |-> l.nodes],
                 l.front, l.size)

ListCopy(l) ==
    LET r == ListCopyHeap(l) IN [l |-> IF r.panic THEN l ELSE Canon(r.l), panic |-> r.panic]

ListClear(l) == [front |-> NIL, back |-> NIL, size |-> 0, nodes |-> <<>>]

ListSize(l) == l.size

\* ToSlice, lines 292-298: [slice, panic]; cursor.val read through nil is a
\* panic.
RECURSIVE ListToSliceLoop(_, _, _, _)
ListToSliceLoop(l, cursor, i, s) ==
    IF i >= l.size THEN [slice |-> s, panic |-> FALSE]
    ELSE IF cursor = NIL THEN [slice |-> s, panic |-> TRUE]
    ELSE ListToSliceLoop(l, l.nodes[cursor].next, i + 1,
                         [s EXCEPT ![i + 1] = l.nodes[cursor].val])

ListToSlice(l) == ListToSliceLoop(l, l.front, 0, Zeros(l.size))

\* The loop of Reverse, lines 308-314: next and prev of each of the first
\* size nodes change places.
RECURSIVE ReverseLoop(_, _, _, _)
ReverseLoop(nodes, cursor, i, size) ==
    IF i >= size THEN nodes
    ELSE ReverseLoop([nodes EXCEPT ![cursor].next = nodes[cursor].prev,
                                   ![cursor].prev = nodes[cursor].next],
                     nodes[cursor].next, i + 1, size)

\* Reverse, lines 302-319.
ListReverseMutant(l) ==
    IF l.size = 0 \/ l.size = 1 THEN l
    ELSE Canon([front |-> l.front, back |-> l.back, size |-> l.size,
                nodes |-> ReverseLoop(l.nodes, l.front, 0, l.size)])
ListReverse(l) ==
    IF l.size = 0 \/ l.size = 1 THEN l
    ELSE Canon([front |-> l.back, back |-> l.front, size |-> l.size,
                nodes |-> ReverseLoop(l.nodes, l.front, 0, l.size)])

(***************************************************************************)
(* Stack                                                                   *)
(***************************************************************************)
StackNewEmpty == [items |-> <<>>]

\* NewFromSlice, stack.go lines 23-30.
StackNewFromSlice(slice) == [items |-> CopyInto(Zeros(Len(slice)), 0, slice)]

StackPush(st, newItem) == [items |-> Append(st.items, newItem)]

\* Pop, stack.go lines 34-44: [st, err, val].
StackPopMutant(st) ==
    IF Len(st.items) = 0 THEN [st |-> st, err |-> TRUE, val |-> ZeroValue]
    ELSE [st |-> [items |-> Tail(st.items)], err |-> FALSE, val |-> Head(st.items)]
StackPop(st) ==
    IF Len(st.items) = 0 THEN [st |-> st, err |-> TRUE, val |-> ZeroValue]
    ELSE [st |-> [items |-> SubSeq(st.items, 1, Len(st.items) - 1)], err |-> FALSE,
          val |-> st.items[Len(st.items)]]

StackPeek(st) ==
    IF Len(st.items) = 0 THEN [err |-> TRUE, val |-> ZeroValue]
    ELSE [err |-> FALSE, val |-> st.items[Len(st.items)]]

\* Copy, stack.go lines 109-118.
StackCopy(st) == [items |-> CopyValues(Zeros(Len(st.items)), st.items)]

StackClear(st) == [items |-> <<>>]

StackSize(st) == Len(st.items)

\* ToSlice, stack.go lines 99-105.
StackToSlice(st) == CopyInto(Zeros(Len(st.items)), 0, st.items)

(***************************************************************************)
(* Queue: the circular buffer with doubling growth.  items is the backing  *)
(* array (its length is the capacity), indexed from 0 through At.          *)
(***************************************************************************)
QueueInitCap == 4

QueueNewEmpty == [items |-> Zeros(QueueInitCap), front |-> 0, rear |-> 0, size |-> 0]

\* NewFromSlice, lines 38-48.
QueueNewFromSlice(slice) ==
    [items |-> CopyInto(Zeros(Len(slice)), 0, slice), front |-> 0, rear |-> 0,
     size |-> Len(slice)]

\* grow, lines 51-63.
QueueGrowMutant(q) ==
    [items |-> CopyInto(Zeros(Len(q.items) * 2), 0, q.items), front |-> 0,
     rear |-> q.size, size |-> q.size]
QueueGrow(q) ==
    LET newCapacity == Len(q.items) * 2
        newItems == Zeros(newCapacity)
        copied == IF q.front < q.rear
                  THEN CopyInto(newItems, 0, Slice(q.items, q.front, q.rear))
                  ELSE CopyInto(CopyInto(newItems, 0, Slice(q.items, q.front, Len(q.items))),
                                Len(q.items) - q.front, Slice(q.items, 0, q.rear))
    IN  [items |-> copied, front |-> 0, rear |-> q.size, size |-> q.size]

\* Enqueue, lines 66-75: [q, panic]; panic is items[rear] outside the array.
QueueEnqueue(q, newItem) ==
    LET g == IF q.size = Len(q.items) THEN QueueGrow(q) ELSE q
    IN  IF g.rear >= Len(g.items)
        THEN [q |-> g, panic |-> TRUE]
        ELSE [q |-> [items |-> [g.items EXCEPT ![g.rear + 1] = newItem],
                     front |-> g.front,
                     rear  |-> (g.rear + 1) % Len(g.items),
                     size  |-> g.size + 1],
              panic |-> FALSE]

\* Dequeue that advances front without wrapping it around.
QueueDequeueMutant(q) ==
    IF q.size = 0 THEN [q |-> q, err |-> TRUE, val |-> ZeroValue]
    ELSE [q |-> [items |-> q.items, front |-> q.front + 1, rear |-> q.rear,
                 size |-> q.size - 1],
          err |-> FALSE, val |-> At(q.items, q.front)]

\* Dequeue, lines 86-97: [q, err, val].
QueueDequeue(q) ==
    IF q.size = 0 THEN [q |-> q, err |-> TRUE, val |-> ZeroValue]
    ELSE [q |-> [items |-> q.items, front |-> (q.front + 1) % Len(q.items),
                 rear |-> q.rear, size |-> q.size - 1],
          err |-> FALSE, val |-> At(q.items, q.front)]

\* Peek, lines 101-110: [err, val].
QueuePeek(q) ==
    IF q.size = 0 THEN [err |-> TRUE, val |-> ZeroValue]
    ELSE [err |-> FALSE, val |-> At(q.items, q.front)]

QueueClear(q) == [items |-> q.items, front |-> 0, rear |-> 0, size |-> 0]

\* Copy, lines 144-156.
QueueCopy(q) ==
    [items |-> CopyValues(Zeros(Len(q.items)), q.items), front |-> q.front,
     rear |-> q.rear, size |-> q.size]

QueueSize(q) == q.size

\* ToSlice, lines 159-170: [slice, panic].  copiedSlice has length and
\* capacity q.size; in the else branch copiedSlice[len(items) - front:] is a
\* slice expression whose low bound must not exceed that length.
QueueToSlice(q) ==
    IF q.front < q.rear
    THEN [slice |-> CopyInto(Zeros(q.size), 0, Slice(q.items, q.front, q.rear)),
          panic |-> FALSE]
    ELSE IF Len(q.items) - q.front > q.size
    THEN [slice |-> <<>>, panic |-> TRUE]
    ELSE [slice |-> CopyInto(CopyInto(Zeros(q.size), 0,
                                      Slice(q.items, q.front, Len(q.items))),
                             Len(q.items) - q.front, Slice(q.items, 0, q.rear)),
          panic |-> FALSE]

(***************************************************************************)
(* The append-based Queue of queue/queue.go: items only grows (append) until*)
(* Clear; front and rear are indices into it.                              *)
(***************************************************************************)
\* NewEmpty, lines 16-18.
AQueueNewEmpty == [items |-> <<>>, front |-> 0, rear |-> 0]

\* NewFromSlice, lines 22-30.
AQueueNewFromSlice(slice) ==
    [items |-> CopyInto(Zeros(Len(slice)), 0, slice), front |-> 0, rear |-> Len(slice)]

\* Enqueue, lines 33-38.
AQueueEnqueue(q, newItem) ==
    [items |-> Append(q.items, newItem), front |-> q.front, rear |-> q.rear + 1]

\* Dequeue, lines 49-59: [q, err, val].
AQueueDequeue(q) ==
    IF q.front = q.rear THEN [q |-> q, err |-> TRUE, val |-> ZeroValue]
    ELSE [q |-> [q EXCEPT !.front = q.front + 1], err |-> FALSE,
          val |-> At(q.items, q.front)]

\* Peek, lines 63-72: [err, val].
AQueuePeek(q) ==
    IF q.front = q.rear THEN [err |-> TRUE, val |-> ZeroValue]
    ELSE [err |-> FALSE, val |-> At(q.items, q.front)]

\* Size, lines 75-79.
AQueueSize(q) == q.rear - q.front

\* Clear, lines 82-88.
AQueueClear(q) == [items |-> <<>>, front |-> 0, rear |-> 0]

\* Contains, lines 90-101: the index in items of the first equal element,
\* the scan starting at index 0 of items.
RECURSIVE ContainsLoop(_, _, _)
ContainsLoop(items, i, item) ==
    IF i >= Len(items) THEN -1
    ELSE IF At(items, i) = item THEN i
    ELSE ContainsLoop(items, i + 1, item)

AQueueContains(q, item) == ContainsLoop(q.items, 0, item)

\* ToSlice, lines 116-122.
AQueueToSlice(q) ==
    CopyInto(Zeros(q.rear - q.front), 0, Slice(q.items, q.front, q.rear))

(***************************************************************************)
(* Set: the map's key set and the size counter.                            *)
(***************************************************************************)
SetNewEmpty == [items |-> {}, size |-> 0]

\* Add that counts the item whether or not the map already has it.
SetAddMutant(st, newItem) ==
    [items |-> st.items \cup {newItem}, size |-> st.size + 1]

\* Add, lines 36-44.
SetAdd(st, newItem) ==
    IF newItem \notin st.items
    THEN [items |-> st.items \cup {newItem}, size |-> st.size + 1]
    ELSE st

\* for i := 0; i < len(slice); i++ { s.Add(slice[i]) }
RECURSIVE SetNewFromSliceLoop(_, _, _)
SetNewFromSliceLoop(st, slice, i) ==
    IF i < Len(slice)
    THEN SetNewFromSliceLoop(SetAdd(st, slice[i + 1]), slice, i + 1)
    ELSE st

\* NewFromSlice, lines 25-32.
SetNewFromSlice(slice) == SetNewFromSliceLoop(SetNewEmpty, slice, 0)

\* Remove, lines 48-56.
SetRemove(st, item) ==
    IF item \in st.items
    THEN [items |-> st.items \ {item}, size |-> st.size - 1]
    ELSE st

SetClear(st) == [items |-> {}, size |-> 0]

SetSize(st) == st.size

\* for key := range keys { st.Add(key) }
RECURSIVE SetAddAll(_, _)
SetAddAll(st, keys) ==
    IF keys = {} THEN st
    ELSE LET key == CHOOSE k \in keys : TRUE
         IN  SetAddAll(SetAdd(st, key), keys \ {key})

\* Copy, lines 73-81.
SetCopy(st) == SetAddAll(SetNewEmpty, st.items)

\* Union without the loop over s2's keys.
SetUnionMutant(items1, items2) == SetAddAll(SetNewEmpty, items1)

\* The bodies of the two-set methods, on the items read from s1 and s2.
SetUnion(items1, items2) == SetAddAll(SetAddAll(SetNewEmpty, items1), items2)

SetIntersection(items1, items2) ==
    SetAddAll(SetNewEmpty, {key \in items1 : key \in items2})

SetDifference(items1, items2) ==
    SetAddAll(SetNewEmpty, {key \in items1 : key \notin items2})

SetIsSubset(items1, items2) == \A key \in items1 : key \in items2

SetIsSuperset(items1, items2) == \A key \in items2 : key \in items1

\* Equals without the comparison of the two size counters.
SetEqualsMutant(s1, s2) == \A key \in s1.items : key \in s2.items

\* Equals, lines 207-221.
SetEquals(s1, s2) ==
    IF s1.size # s2.size THEN FALSE ELSE \A key \in s1.items : key \in s2.items

(***************************************************************************)
(* Sequential BST: one caller issuing Insert, Remove, FindMin, FindMax and *)
(* Clear.  Each action is the whole method (Lock ... deferred Unlock).     *)
(***************************************************************************)
BSTFresh ==
    /\ bst = BSTNewEmpty
    /\ nIns = 0
    /\ nRem = 0

PQFresh(minHeap) ==
    /\ pq = PQNewEmpty(minHeap)
    /\ pending = EmptyBag
    /\ drained = <<>>
    /\ nEnq = 0
    /\ nExt = 0

\* No Copy() is under study.
NoPair == <<>>

\* Nothing enqueued yet.
NoHistory == [seq |-> <<>>, grewWrapped |-> FALSE]

ContFresh ==
    /\ lst = ListNewEmpty
    /\ stk = StackNewEmpty
    /\ que = QueueNewEmpty
    /\ sets = [i \in Insts |-> SetNewEmpty]
    /\ aque = AQueueNewEmpty
    /\ hist = NoHistory

NoCall == [m |-> "none", inst |-> 1, other |-> 1, arg |-> 0]

NoResult == [err |-> FALSE, val |-> ZeroValue]

ThreadsIdle(k) ==
    /\ kind = k
    /\ mu = [i \in Insts |-> 0]
    /\ pc = [t \in ThreadIds |-> "idle"]
    /\ call = [t \in ThreadIds |-> NoCall]
    /\ snap = [t \in ThreadIds |-> <<>>]
    /\ res = [t \in ThreadIds |-> NoResult]
    /\ iter = [t \in ThreadIds |-> 0]

InitBST ==
    /\ BSTFresh
    /\ PQFresh(TRUE)
    /\ ContFresh
    /\ cp = NoPair
    /\ ThreadsIdle("BST")
    /\ fault = FALSE

Insert(key, val) ==
    /\ ~fault
    /\ nIns < MaxIns
    /\ LET r == BSTInsert(bst, key, val)
       IN  IF r.panic
           THEN /\ fault' = TRUE
                /\ UNCHANGED <<bst, nIns, nRem, pqVars, contVars, thrVars>>
           ELSE /\ bst' = r.b
                /\ nIns' = nIns + 1
                /\ UNCHANGED <<fault, nRem, pqVars, contVars, thrVars>>

Remove(key) ==
    /\ ~fault
    /\ LET r == BSTRemove(bst, key)
       IN  /\ bst' = r.b
           /\ nRem' = IF r.err THEN nRem ELSE nRem + 1
    /\ UNCHANGED <<fault, nIns, pqVars, contVars, thrVars>>

FindMin ==
    /\ ~fault
    /\ LET r == BSTFindMin(bst)
       IN  /\ fault' = r.panic
    /\ UNCHANGED <<bst, nIns, nRem, pqVars, contVars, thrVars>>

FindMax ==
    /\ ~fault
    /\ LET r == BSTFindMax(bst)
       IN  /\ fault' = r.panic
    /\ UNCHANGED <<bst, nIns, nRem, pqVars, contVars, thrVars>>

Search(key) ==
    /\ ~fault
    /\ BSTSearch(bst, key).err \in BOOLEAN
    /\ UNCHANGED vars

\* The methods below return a value computed from the tree and assign none of
\* its fields.
InOrderTraversal ==
    /\ ~fault
    /\ Len(BSTInOrderTraversal(bst)) >= 0
    /\ UNCHANGED vars

PreOrderTraversal ==
    /\ ~fault
    /\ Len(BSTPreOrderTraversal(bst)) >= 0
    /\ UNCHANGED vars

PostOrderTraversal ==
    /\ ~fault
    /\ Len(BSTPostOrderTraversal(bst)) >= 0
    /\ UNCHANGED vars

Height ==
    /\ ~fault
    /\ BSTHeight(bst) >= -1
    /\ UNCHANGED vars

Copy ==
    /\ ~fault
    /\ BSTSize(BSTCopy(bst)) >= 0
    /\ UNCHANGED vars

Clear ==
    /\ ~fault
    /\ bst' = BSTClear(bst)
    /\ nIns' = 0
    /\ nRem' = 0
    /\ UNCHANGED <<fault, pqVars, contVars, thrVars>>

NextBST ==
    \/ \E key \in Keys, val \in Vals : Insert(key, val)
    \/ \E key \in Keys : Remove(key)
    \/ \E key \in Keys : Search(key)
    \/ FindMin
    \/ FindMax
    \/ InOrderTraversal
    \/ PreOrderTraversal
    \/ PostOrderTraversal
    \/ Height
    \/ Copy
    \/ Clear

SpecBST == InitBST /\ [][NextBST]_vars

(***************************************************************************)
(* Claims about the BST, checked under SpecBST.                            *)
(***************************************************************************)
\* Number of occurrences of x in sequence s.
Count(s, x) == Cardinality({i \in 1..Len(s) : s[i] = x})

NonDecreasing(s) == \A i \in 1..(Len(s) - 1) : Comparator(s[i], s[i + 1]) # 1

KeyPresent(b, key) == \E i \in 1..Len(b.nodes) : b.nodes[i].key = key

\* C1: in every state reachable by Insert, Remove and Clear (duplicate keys
\* included), InOrderTraversal() is non-decreasing per the comparator.
C1_InOrderSorted == NonDecreasing(BSTInOrderTraversal(bst))

\* C1 witness: after a successful Remove the tree still holds at least three
\* nodes on both sides of the root, two of them with equal keys.
C1_Witness ==
    /\ nRem >= 1
    /\ Len(bst.nodes) >= 3
    /\ bst.nodes[bst.root].left # NIL
    /\ bst.nodes[bst.root].right # NIL
    /\ \E i \in 1..(Len(bst.nodes) - 1) :
          BSTInOrderTraversal(bst)[i] = BSTInOrderTraversal(bst)[i + 1]

\* C2: after N completed Inserts and R successful Removes (since construction
\* or the last Clear) Size() = N - R; a Remove returns an error exactly when
\* the key is absent, then leaves the tree and Size() unchanged, and a
\* successful Remove lowers Size() by exactly one.
C2_SizeIsInsertsMinusRemoves ==
    /\ BSTSize(bst) = nIns - nRem
    /\ \A key \in Keys :
          LET r == BSTRemove(bst, key)
          IN  /\ r.err <=> ~KeyPresent(bst, key)
              /\ r.err => r.b = bst
              /\ ~r.err => BSTSize(r.b) = BSTSize(bst) - 1

\* C2 witness: several Inserts and Removes have completed, nodes remain, and
\* some key is absent so that Remove of it fails.
C2_Witness ==
    /\ nIns >= 4
    /\ nRem >= 2
    /\ BSTSize(bst) >= 2
    /\ \E key \in Keys : BSTRemove(bst, key).err

\* C3: a successful Remove(k) drops exactly one node: the multiset of keys of
\* InOrderTraversal() afterwards is the one before minus one occurrence of k
\* (the promoted node keeps its own left subtree).
C3_RemoveDropsExactlyOneKey ==
    \A key \in Keys :
       LET r == BSTRemove(bst, key)
       IN  ~r.err =>
             \A k \in Keys :
                Count(BSTInOrderTraversal(r.b), k) =
                   Count(BSTInOrderTraversal(bst), k) - (IF k = key THEN 1 ELSE 0)

\* C4: the cached size is the number of nodes reachable from root, and root is
\* absent exactly when size is 0 (Height() = -1 exactly when Size() = 0).
C4_SizeIsNodeCount ==
    /\ BSTSize(bst) = Len(BSTInOrderTraversal(bst))
    /\ (bst.root = NIL) <=> (BSTSize(bst) = 0)
    /\ (BSTHeight(bst) = -1) <=> (BSTSize(bst) = 0)

\* C5: no call aborts: in every reachable state Insert, FindMin and FindMax
\* complete without dereferencing an absent node, and FindMin/FindMax return
\* an error exactly when the tree holds no node.
C5_NeverAborts ==
    /\ ~fault
    /\ \A key \in Keys, val \in Vals : ~BSTInsert(bst, key, val).panic
    /\ ~BSTFindMin(bst).panic
    /\ ~BSTFindMax(bst).panic
    /\ BSTFindMin(bst).err <=> (bst.root = NIL)
    /\ BSTFindMax(bst).err <=> (bst.root = NIL)

\* The nodes of b whose key is key.
NodesWithKey(b, key) == {n \in 1..Len(b.nodes) : b.nodes[n].key = key}

\* The nodes in the subtree rooted at n.
Subtree(b, n) == {ReachFrom(b.nodes, n)[i] : i \in 1..Len(ReachFrom(b.nodes, n))}

\* C11: Search(k) returns a nil error exactly when some node reachable from
\* root has key k, and then the value of the first such node on the descent
\* from root (the one above every other node with key k); otherwise it
\* returns an error and the zero value.  Search assigns no field of the tree.
C11_SearchFindsPresentKeys ==
    \A key \in Keys :
       LET r == BSTSearch(bst, key)
       IN  /\ r.err <=> NodesWithKey(bst, key) = {}
           /\ r.err => r.val = ZeroValue
           /\ ~r.err => \E n \in NodesWithKey(bst, key) :
                           /\ r.val = bst.nodes[n].val
                           /\ NodesWithKey(bst, key) \subseteq Subtree(bst, n)

\* C11 witness: after a Remove, the tree holds two nodes with the same key and
\* different values, Search returns the value of one of them, and some other
\* key is absent.
C11_Witness ==
    /\ nRem >= 1
    /\ \E key \in Keys : BSTSearch(bst, key).err
    /\ \E key \in Keys :
          /\ ~BSTSearch(bst, key).err
          /\ \E n \in NodesWithKey(bst, key), m \in NodesWithKey(bst, key) :
                /\ n # m
                /\ bst.nodes[n].val # bst.nodes[m].val
                /\ bst.nodes[n].val = BSTSearch(bst, key).val

\* The trees a single Insert, Remove or Clear can leave in place of tree t,
\* in t's store.
AfterOneCall(t) ==
    {BSTInsertHeap(t, key, val).b : key \in Keys, val \in Vals}
    \cup {BSTRemoveHeap(t, key).b : key \in Keys}
    \cup {Tree(NIL, t.nodes, 0)}

\* The copy has the source's size, pre-order keys, shape and values.
CopyEqualsSource(src, cpy) ==
    /\ BSTSize(cpy) = BSTSize(src)
    /\ BSTPreOrderTraversal(cpy) = BSTPreOrderTraversal(src)
    /\ Gc(cpy).nodes = Gc(src).nodes

\* No node is reachable from both roots, and a call on one tree leaves
\* everything reachable from the other's root as it was.
CopyIndependent(src, cpy) ==
    /\ Subtree(src, src.root) \cap Subtree(cpy, cpy.root) = {}
    /\ \A t \in AfterOneCall(src) : Gc(Tree(cpy.root, t.nodes, cpy.size)) = Gc(cpy)
    /\ \A t \in AfterOneCall(cpy) : Gc(Tree(src.root, t.nodes, src.size)) = Gc(src)

\* C12: Copy() returns a tree with the source's size and pre-order key
\* sequence (same shape, keys and values) that shares no node with it, so that
\* an Insert, Remove or Clear on either tree leaves the other's traversals,
\* Size() and Search results unchanged.
C12_CopyIsIndependentClone ==
    LET cpy == BSTCopyHeap(bst)
        src == Tree(bst.root, cpy.nodes, bst.size)
    IN  /\ CopyEqualsSource(src, cpy)
        /\ CopyIndependent(src, cpy)

\* C14: in every state reachable by Insert and Remove (duplicate keys
\* included), for every node each key in its left subtree compares -1 against
\* the node's key and each key in its right subtree compares 0 or +1.
C14_OrderInvariant ==
    \A n \in 1..Len(bst.nodes) :
       /\ \A m \in Subtree(bst, bst.nodes[n].left) :
             Comparator(bst.nodes[m].key, bst.nodes[n].key) = -1
       /\ \A m \in Subtree(bst, bst.nodes[n].right) :
             Comparator(bst.nodes[m].key, bst.nodes[n].key) \in {0, 1}

\* The number of edges on the longest path from node p down to a leaf; -1
\* when there is no node.
RECURSIVE LongestPath(_, _)
LongestPath(nodes, p) ==
    IF p = NIL THEN -1
    ELSE LET l == LongestPath(nodes, nodes[p].left)
             r == LongestPath(nodes, nodes[p].right)
         IN  1 + (IF l > r THEN l ELSE r)

\* The tree after Insert of keys[1], keys[2], ... into b.
RECURSIVE InsertAll(_, _)
InsertAll(b, keys) ==
    IF keys = <<>> THEN b ELSE InsertAll(BSTInsert(b, Head(keys), 10).b, Tail(keys))

\* C15: Height() is -1 for an empty tree and otherwise the number of edges on
\* the longest root-to-leaf path; a tree built by inserting n keys in
\* increasing order, or n equal keys, has Height() = n - 1.
C15_HeightIsLongestPath ==
    /\ BSTHeight(bst) = LongestPath(bst.nodes, bst.root)
    /\ (BSTHeight(bst) = -1) <=> (bst.nodes = <<>>)
    /\ \A n \in 0..MaxIns :
          /\ BSTHeight(InsertAll(BSTNewEmpty, [i \in 1..n |-> i])) = n - 1
          /\ \A key \in Keys :
                BSTHeight(InsertAll(BSTNewEmpty, [i \in 1..n |-> key])) = n - 1

\* C15 witness: after a Remove the tree has nodes on both sides of the root,
\* subtrees of different heights and Height() = 2.
C15_Witness ==
    /\ nRem >= 1
    /\ BSTHeight(bst) = 2
    /\ bst.nodes[bst.root].left # NIL
    /\ bst.nodes[bst.root].right # NIL
    /\ LongestPath(bst.nodes, bst.nodes[bst.root].left)
          # LongestPath(bst.nodes, bst.nodes[bst.root].right)

\* The recursive traversals: node, left, right and left, right, node.
RECURSIVE PreOrderKeys(_, _)
PreOrderKeys(nodes, p) ==
    IF p = NIL THEN <<>>
    ELSE <<nodes[p].key>> \o PreOrderKeys(nodes, nodes[p].left)
                          \o PreOrderKeys(nodes, nodes[p].right)

RECURSIVE PostOrderKeys(_, _)
PostOrderKeys(nodes, p) ==
    IF p = NIL THEN <<>>
    ELSE PostOrderKeys(nodes, nodes[p].left) \o PostOrderKeys(nodes, nodes[p].right)
         \o <<nodes[p].key>>

\* C16: PreOrderTraversal and PostOrderTraversal return every reachable
\* node's key exactly once, in the order of the recursive definitions
\* node-left-right and left-right-node; inserting 4, 8, 2, 6, 3, 1 gives
\* [4,2,1,3,8,6] and [1,3,2,6,8,4]; an empty tree gives an empty sequence.
C16_TraversalOrders ==
    /\ BSTPreOrderTraversal(bst) = PreOrderKeys(bst.nodes, bst.root)
    /\ BSTPostOrderTraversal(bst) = PostOrderKeys(bst.nodes, bst.root)
    /\ Len(BSTPreOrderTraversal(bst)) = Len(bst.nodes)
    /\ Len(BSTPostOrderTraversal(bst)) = Len(bst.nodes)
    /\ BSTPreOrderTraversal(BSTNewEmpty) = <<>>
    /\ BSTPostOrderTraversal(BSTNewEmpty) = <<>>
    /\ BSTPreOrderTraversal(InsertAll(BSTNewEmpty, <<4, 8, 2, 6, 3, 1>>))
          = <<4, 2, 1, 3, 8, 6>>
    /\ BSTPostOrderTraversal(InsertAll(BSTNewEmpty, <<4, 8, 2, 6, 3, 1>>))
          = <<1, 3, 2, 6, 8, 4>>

\* C16 witness: a tree built by Insert calls only, with five nodes, both
\* subtrees of the root non-empty and three different traversal orders.
C16_Witness ==
    /\ nRem = 0
    /\ nIns = 5
    /\ bst.nodes[bst.root].left # NIL
    /\ bst.nodes[bst.root].right # NIL
    /\ BSTPreOrderTraversal(bst) # BSTPostOrderTraversal(bst)
    /\ BSTPreOrderTraversal(bst) # BSTInOrderTraversal(bst)
    /\ BSTPostOrderTraversal(bst) # BSTInOrderTraversal(bst)

\* C17: on a tree holding at least one node, FindMin returns without error a
\* key of the tree that compares less than or equal to every key in it, and
\* FindMax one that compares greater than or equal to every key; neither
\* assigns a field of the tree.
C17_FindMinMaxAreExtremes ==
    bst.nodes # <<>> =>
       LET min == BSTFindMin(bst)
           max == BSTFindMax(bst)
       IN  /\ ~min.err /\ ~min.panic
           /\ ~max.err /\ ~max.panic
           /\ KeyPresent(bst, min.key)
           /\ KeyPresent(bst, max.key)
           /\ \A n \in 1..Len(bst.nodes) :
                 /\ Comparator(min.key, bst.nodes[n].key) \in {-1, 0}
                 /\ Comparator(max.key, bst.nodes[n].key) \in {0, 1}

\* C17 witness: after a Remove, the root has nodes on both sides and is
\* neither the minimum nor the maximum.
C17_Witness ==
    /\ nRem >= 1
    /\ bst.nodes # <<>>
    /\ BSTFindMin(bst).key # bst.nodes[bst.root].key
    /\ BSTFindMax(bst).key # bst.nodes[bst.root].key
    /\ Len(bst.nodes) >= 4

(***************************************************************************)
(* Sequential PriorityQueue: one caller issuing Enqueue, Peek, ExtractTop  *)
(* and Clear on a queue whose orientation is fixed at construction.        *)
(***************************************************************************)
InitPQ ==
    /\ \E minHeap \in BOOLEAN : PQFresh(minHeap)
    /\ BSTFresh
    /\ ContFresh
    /\ cp = NoPair
    /\ ThreadsIdle("PQ")
    /\ fault = FALSE

Enqueue(p, v) ==
    /\ nEnq < MaxEnq
    /\ pq' = PQEnqueue(pq, p, v)
    /\ pending' = pending (+) SetToBag({<<p, v>>})
    /\ drained' = <<>>
    /\ nEnq' = nEnq + 1
    /\ UNCHANGED <<nExt, bstVars, contVars, thrVars, fault>>

Peek ==
    /\ PQPeek(pq).err \in BOOLEAN
    /\ UNCHANGED vars

ExtractTop ==
    /\ LET r == PQExtractTop(pq)
       IN  /\ pq' = r.q
           /\ pending' = IF r.err THEN pending ELSE pending (-) SetToBag({<<r.p, r.v>>})
           /\ drained' = IF r.err THEN drained ELSE Append(drained, r.p)
           /\ nExt' = IF r.err THEN nExt ELSE nExt + 1
    /\ UNCHANGED <<nEnq, bstVars, contVars, thrVars, fault>>

ClearPQ ==
    /\ pq' = PQClear(pq)
    /\ pending' = EmptyBag
    /\ drained' = <<>>
    /\ nEnq' = 0
    /\ nExt' = 0
    /\ UNCHANGED <<bstVars, contVars, thrVars, fault>>

NextPQ ==
    \/ \E p \in Prios, v \in Vals : Enqueue(p, v)
    \/ Peek
    \/ ExtractTop
    \/ ClearPQ

SpecPQ == InitPQ /\ [][NextPQ]_vars

(***************************************************************************)
(* Claims about the PriorityQueue, checked under SpecPQ.                   *)
(***************************************************************************)
\* The priorities in extraction order respect the queue's orientation.
InHeapOrder(s, minHeap) ==
    \A i \in 1..(Len(s) - 1) :
       IF minHeap THEN Comparator(s[i], s[i + 1]) # 1 ELSE Comparator(s[i], s[i + 1]) # -1

HeapBag(heap) ==
    LET pairs == {<<heap[i].p, heap[i].v>> : i \in 1..Len(heap)}
    IN  [pr \in pairs |-> Cardinality({i \in 1..Len(heap) : <<heap[i].p, heap[i].v>> = pr})]

\* C6: after any Enqueues, the priorities that successive ExtractTop calls
\* return are non-decreasing for a min-heap and non-increasing for a max-heap.
C6_ExtractOrder == InHeapOrder(drained, pq.minHeap)

\* C6 witness: a queue filled with priorities enqueued out of order has been
\* drained to empty, returning at least three priorities, not all equal.
C6_Witness ==
    /\ PQIsEmpty(pq)
    /\ Len(drained) >= 3
    /\ drained[1] # drained[Len(drained)]

\* C7: size = len(heap) = Enqueues minus successful ExtractTops since the last
\* Clear; the heap holds exactly the pairs enqueued and not yet extracted, and
\* a successful ExtractTop returns one of them, value paired with its priority.
C7_SizeAndPairs ==
    /\ PQSize(pq) = Len(pq.heap)
    /\ PQSize(pq) = nEnq - nExt
    /\ HeapBag(pq.heap) = pending
    /\ LET r == PQExtractTop(pq)
       IN  /\ r.err <=> nEnq - nExt = 0
           /\ ~r.err => /\ BagIn(<<r.p, r.v>>, pending)
                        /\ PQSize(r.q) = PQSize(pq) - 1

\* C7 witness: Enqueues and ExtractTops have interleaved, and pairs with the
\* same priority but different values are still queued.
C7_Witness ==
    /\ nEnq >= 3
    /\ nExt >= 1
    /\ PQSize(pq) >= 2
    /\ \E i, j \in 1..Len(pq.heap) : pq.heap[i].p = pq.heap[j].p /\ pq.heap[i].v # pq.heap[j].v

\* C18: on a non-empty PriorityQueue, Peek returns without error exactly the
\* (priority, value) pair an immediately following ExtractTop returns; its
\* priority is minimal (min-heap) or maximal (max-heap) among the stored
\* priorities.  Peek assigns no field of the queue.
C18_PeekIsNextExtract ==
    ~PQIsEmpty(pq) =>
       LET top == PQPeek(pq)
           ext == PQExtractTop(pq)
       IN  /\ ~top.err /\ ~ext.err
           /\ top.p = ext.p /\ top.v = ext.v
           /\ \A i \in 1..Len(pq.heap) :
                 Comparator(top.p, pq.heap[i].p) # (IF pq.minHeap THEN 1 ELSE -1)

\* C18 witness: after Enqueues and an ExtractTop, a max-heap holds three
\* pairs whose priorities are not all equal.
C18_Witness ==
    /\ ~pq.minHeap
    /\ nExt >= 1
    /\ PQSize(pq) = 3
    /\ \E i \in 1..Len(pq.heap) : pq.heap[i].p # PQPeek(pq).p

\* C19: on an empty PriorityQueue Peek and ExtractTop return an error and
\* ExtractTop leaves the queue as it was; size is never negative, and an
\* emptied queue is in the state of a new one, so a later Enqueue or
\* ExtractTop behaves as on a fresh queue.
C19_EmptyQueueErrors ==
    /\ PQSize(pq) >= 0
    /\ PQSize(PQExtractTop(pq).q) >= 0
    /\ PQIsEmpty(pq) =>
          /\ PQPeek(pq).err
          /\ PQExtractTop(pq).err
          /\ PQExtractTop(pq).q = pq
          /\ pq = PQNewEmpty(pq.minHeap)
          /\ \A p \in Prios, v \in Vals :
                PQExtractTop(PQEnqueue(PQExtractTop(pq).q, p, v))
                   = PQExtractTop(PQEnqueue(PQNewEmpty(pq.minHeap), p, v))

\* C19 witness: a max-heap that held several pairs has been drained to empty.
C19_Witness ==
    /\ ~pq.minHeap
    /\ PQIsEmpty(pq)
    /\ nEnq >= 2
    /\ nExt = nEnq

(***************************************************************************)
(* Sequential Queue: one caller issuing Enqueue, Dequeue, Peek and Clear   *)
(* on a queue made by NewEmpty, holding at most MaxQueued items.  hist.seq*)
(* lists the items enqueued and not yet dequeued, oldest first;            *)
(* hist.grewWrapped records that some Enqueue grew the buffer while front  *)
(* was not at index 0.                                                     *)
(***************************************************************************)
InitQueue ==
    /\ BSTFresh
    /\ PQFresh(TRUE)
    /\ ContFresh
    /\ cp = NoPair
    /\ ThreadsIdle("Queue")
    /\ fault = FALSE

queueFrame == <<bstVars, pqVars, lst, stk, aque, sets, cp, thrVars>>

QueueEnqueueCall(newItem) ==
    /\ ~fault
    /\ QueueSize(que) < MaxQueued
    /\ LET r == QueueEnqueue(que, newItem)
       IN  /\ que' = IF r.panic THEN que ELSE r.q
           /\ fault' = r.panic
           /\ hist' = IF r.panic THEN hist
                      ELSE [seq |-> Append(hist.seq, newItem),
                            grewWrapped |-> \/ hist.grewWrapped
                                            \/ (que.size = Len(que.items) /\ que.front # 0)]
    /\ UNCHANGED queueFrame

QueueDequeueCall ==
    /\ ~fault
    /\ LET r == QueueDequeue(que)
       IN  /\ que' = r.q
           /\ hist' = IF r.err THEN hist ELSE [hist EXCEPT !.seq = Tail(hist.seq)]
    /\ UNCHANGED <<queueFrame, fault>>

QueuePeekCall ==
    /\ ~fault
    /\ QueuePeek(que).err \in BOOLEAN
    /\ UNCHANGED vars

QueueClearCall ==
    /\ ~fault
    /\ que' = QueueClear(que)
    /\ hist' = [hist EXCEPT !.seq = <<>>]
    /\ UNCHANGED <<queueFrame, fault>>

QueueToSliceCall ==
    /\ ~fault
    /\ fault' = QueueToSlice(que).panic
    /\ UNCHANGED <<queueFrame, que, hist>>

NextQueue ==
    \/ \E newItem \in Items : QueueEnqueueCall(newItem)
    \/ QueueDequeueCall
    \/ QueuePeekCall
    \/ QueueClearCall
    \/ QueueToSliceCall

SpecQueue == InitQueue /\ [][NextQueue]_vars

\* The values successive Dequeue calls return until one fails.
RECURSIVE QueueDrain(_)
QueueDrain(q) ==
    LET r == QueueDequeue(q) IN IF r.err THEN <<>> ELSE <<r.val>> \o QueueDrain(r.q)

\* C20: the circular-buffer Queue is FIFO: after any interleaving of Enqueue
\* and Dequeue, with front/rear wrapped around the buffer end and with
\* doubling growth while wrapped, successive Dequeues return exactly the
\* items enqueued and not yet dequeued, oldest first; Dequeue and Peek on an
\* empty queue return an error and Dequeue leaves the queue unchanged.
C20_QueueIsFifo ==
    /\ QueueDrain(que) = hist.seq
    /\ QueueSize(que) = Len(hist.seq)
    /\ hist.seq # <<>> =>
          /\ ~QueuePeek(que).err
          /\ QueuePeek(que).val = Head(hist.seq)
    /\ hist.seq = <<>> =>
          /\ QueueDequeue(que).err
          /\ QueueDequeue(que).q = que
          /\ QueuePeek(que).err

\* C20 witness: the buffer has grown while wrapped, and the queue, holding
\* different items, is wrapped around the end of the grown buffer again.
C20_Witness ==
    /\ hist.grewWrapped
    /\ que.rear < que.front
    /\ QueueSize(que) >= 3
    /\ \E i \in 1..Len(hist.seq) : hist.seq[i] # hist.seq[1]

\* C21: in every reachable state of the circular-buffer Queue (new and empty,
\* emptied after use, partially filled, wrapped, full) ToSlice() returns
\* without fault a slice of length Size() holding the queued items in FIFO
\* order from front to rear.
C21_ToSliceIsFifoContents ==
    /\ ~fault
    /\ ~QueueToSlice(que).panic
    /\ Len(QueueToSlice(que).slice) = QueueSize(que)
    /\ QueueToSlice(que).slice = hist.seq

(***************************************************************************)
(* Sequential append-based Queue: made by NewFromSlice from a slice of at  *)
(* most MaxSlice items (the empty slice gives the fields of NewEmpty), then*)
(* Enqueue, Dequeue, Contains and Clear by one caller.  hist.seq lists the *)
(* items enqueued and not yet dequeued, oldest first.                      *)
(***************************************************************************)
Slices == UNION {[1..n -> Items] : n \in 0..MaxSlice}

aqueueFrame == <<bstVars, pqVars, lst, stk, que, sets, cp, thrVars, fault>>

InitAQueue ==
    /\ BSTFresh
    /\ PQFresh(TRUE)
    /\ lst = ListNewEmpty
    /\ stk = StackNewEmpty
    /\ que = QueueNewEmpty
    /\ sets = [i \in Insts |-> SetNewEmpty]
    /\ cp = NoPair
    /\ ThreadsIdle("Queue")
    /\ fault = FALSE
    /\ \E slice \in Slices :
          /\ aque = AQueueNewFromSlice(slice)
          /\ hist = [seq |-> slice, grewWrapped |-> FALSE]

AQueueEnqueueCall(newItem) ==
    /\ Len(aque.items) < MaxQueued
    /\ aque' = AQueueEnqueue(aque, newItem)
    /\ hist' = [hist EXCEPT !.seq = Append(hist.seq, newItem)]
    /\ UNCHANGED aqueueFrame

AQueueDequeueCall ==
    /\ aque' = AQueueDequeue(aque).q
    /\ hist' = IF AQueueDequeue(aque).err THEN hist
               ELSE [hist EXCEPT !.seq = Tail(hist.seq)]
    /\ UNCHANGED aqueueFrame

AQueueContainsCall(item) ==
    /\ AQueueContains(aque, item) \in Int
    /\ UNCHANGED vars

AQueueClearCall ==
    /\ aque' = AQueueClear(aque)
    /\ hist' = [hist EXCEPT !.seq = <<>>]
    /\ UNCHANGED aqueueFrame

NextAQueue ==
    \/ \E newItem \in Items : AQueueEnqueueCall(newItem)
    \/ AQueueDequeueCall
    \/ \E item \in Items : AQueueContainsCall(item)
    \/ AQueueClearCall

SpecAQueue == InitAQueue /\ [][NextAQueue]_vars

\* The items of a sequence, as a set.
Range(seq) == {seq[i] : i \in 1..Len(seq)}

\* C22: Contains(x) of the append-based Queue returns a nonnegative position
\* exactly when x is among the items currently in the queue (the Size()
\* items from the front) and -1 otherwise; in particular -1 for an item that
\* has been dequeued and not enqueued again.
C22_ContainsMatchesContents ==
    /\ AQueueToSlice(aque) = hist.seq
    /\ \A item \in Items :
          /\ item \in Range(hist.seq) => AQueueContains(aque, item) >= 0
          /\ item \notin Range(hist.seq) => AQueueContains(aque, item) = -1

(***************************************************************************)
(* Sequential Stack: made by NewFromSlice from a slice of at most MaxSlice *)
(* items (the empty slice gives a stack equal to NewEmpty's), then Push,   *)
(* Pop, Peek and Clear by one caller, at most MaxEnq items on the stack.   *)
(* hist.seq is the abstract sequence, bottom first; res[1] is what the last*)
(* call returned.                                                          *)
(***************************************************************************)
stackFrame ==
    <<bstVars, pqVars, lst, que, aque, sets, cp, kind, mu, pc, call, snap, iter, fault>>

InitStack ==
    /\ BSTFresh
    /\ PQFresh(TRUE)
    /\ lst = ListNewEmpty
    /\ que = QueueNewEmpty
    /\ aque = AQueueNewEmpty
    /\ sets = [i \in Insts |-> SetNewEmpty]
    /\ cp = NoPair
    /\ ThreadsIdle("Stack")
    /\ fault = FALSE
    /\ \E slice \in Slices :
          /\ stk = StackNewFromSlice(slice)
          /\ hist = [seq |-> slice, grewWrapped |-> FALSE]

StackPushCall(newItem) ==
    /\ StackSize(stk) < MaxEnq
    /\ stk' = StackPush(stk, newItem)
    /\ hist' = [hist EXCEPT !.seq = Append(hist.seq, newItem)]
    /\ res' = [res EXCEPT ![1] = NoResult]
    /\ UNCHANGED stackFrame

StackPopCall ==
    /\ stk' = StackPop(stk).st
    /\ hist' = [hist EXCEPT !.seq = SubSeq(hist.seq, 1, Len(hist.seq) - 1)]
    /\ res' = [res EXCEPT ![1] = [err |-> StackPop(stk).err, val |-> StackPop(stk).val]]
    /\ UNCHANGED stackFrame

StackPeekCall ==
    /\ res' = [res EXCEPT ![1] = StackPeek(stk)]
    /\ UNCHANGED <<stackFrame, stk, hist>>

StackClearCall ==
    /\ stk' = StackClear(stk)
    /\ hist' = [hist EXCEPT !.seq = <<>>]
    /\ res' = [res EXCEPT ![1] = NoResult]
    /\ UNCHANGED stackFrame

NextStack ==
    \/ \E newItem \in Keys : StackPushCall(newItem)
    \/ StackPopCall
    \/ StackPeekCall
    \/ StackClearCall

SpecStack == InitStack /\ [][NextStack]_vars

\* C23: Stack refines an abstract LIFO sequence: Push appends, Pop removes
\* and returns the most recently pushed item not yet popped, Peek returns
\* that item without removing it, and Pop/Peek on an empty stack return an
\* error and leave it empty (Size() stays 0).
C23_StackIsLifo ==
    /\ StackToSlice(stk) = hist.seq
    /\ StackSize(stk) = Len(hist.seq)
    /\ \A newItem \in Keys : StackPush(stk, newItem).items = Append(hist.seq, newItem)
    /\ hist.seq # <<>> =>
          /\ StackPop(stk) = [st |-> [items |-> SubSeq(hist.seq, 1, Len(hist.seq) - 1)],
                              err |-> FALSE, val |-> hist.seq[Len(hist.seq)]]
          /\ StackPeek(stk) = [err |-> FALSE, val |-> hist.seq[Len(hist.seq)]]
    /\ hist.seq = <<>> =>
          /\ StackPop(stk).err
          /\ StackPeek(stk).err
          /\ StackSize(StackPop(stk).st) = 0

\* C23 witness: a Pop has just returned 2 from a stack that still holds
\* two items, with a different one on top.
C23_Witness ==
    /\ res[1] = [err |-> FALSE, val |-> 2]
    /\ StackSize(stk) = 2
    /\ StackPeek(stk).val = 1

(***************************************************************************)
(* Sequential List: made by NewFromSlice from a slice of at most MaxSlice  *)
(* items (the empty slice gives NewEmpty's list), then one caller's calls, *)
(* at most MaxEnq items in the list.  hist.seq is the abstract sequence,   *)
(* front first; res[1] is what the last call returned.                     *)
(***************************************************************************)
listFrame ==
    <<bstVars, pqVars, stk, que, aque, sets, cp, kind, mu, pc, call, snap, iter, fault>>

\* The sequence s with x inserted at index p, and with index i removed
\* (indices counted from 0).
InsertAt(s, p, x) == SubSeq(s, 1, p) \o <<x>> \o SubSeq(s, p + 1, Len(s))

RemoveAt(s, i) == SubSeq(s, 1, i) \o SubSeq(s, i + 2, Len(s))

Reversed(s) == [i \in 1..Len(s) |-> s[Len(s) + 1 - i]]

\* The positions a caller may pass: every valid one and the invalid ones
\* next to them.
ListPositions == -1..(MaxEnq + 1)

InitList ==
    /\ BSTFresh
    /\ PQFresh(TRUE)
    /\ stk = StackNewEmpty
    /\ que = QueueNewEmpty
    /\ aque = AQueueNewEmpty
    /\ sets = [i \in Insts |-> SetNewEmpty]
    /\ cp = NoPair
    /\ ThreadsIdle("List")
    /\ fault = FALSE
    /\ \E slice \in Slices :
          /\ lst = ListNewFromSlice(slice)
          /\ hist = [seq |-> slice, grewWrapped |-> FALSE]

\* One call: the list, the abstract sequence and the result after it.
ListStep(l, s, r) ==
    /\ lst' = l
    /\ hist' = [hist EXCEPT !.seq = s]
    /\ res' = [res EXCEPT ![1] = r]
    /\ UNCHANGED listFrame

ListInsertFrontCall(newItem) ==
    /\ ListSize(lst) < MaxEnq
    /\ ListStep(ListInsertFront(lst, newItem), <<newItem>> \o hist.seq, NoResult)

ListInsertBackCall(newItem) ==
    /\ ListSize(lst) < MaxEnq
    /\ ListStep(ListInsertBack(lst, newItem), Append(hist.seq, newItem), NoResult)

ListInsertPositionCall(newItem, position) ==
    /\ ListSize(lst) < MaxEnq
    /\ \E r \in {ListInsertPosition(lst, newItem, position)} :
          ListStep(r.l,
                   IF position \in 0..Len(hist.seq)
                   THEN InsertAt(hist.seq, position, newItem) ELSE hist.seq,
                   [err |-> r.err, val |-> ZeroValue])

ListRemoveFrontCall ==
    \E r \in {ListRemoveFront(lst)} :
       ListStep(r.l, IF hist.seq = <<>> THEN hist.seq ELSE Tail(hist.seq),
                [err |-> r.err, val |-> r.val])

ListRemoveBackCall ==
    \E r \in {ListRemoveBack(lst)} :
       ListStep(r.l, SubSeq(hist.seq, 1, Len(hist.seq) - 1),
                [err |-> r.err, val |-> r.val])

ListRemovePositionCall(index) ==
    \E r \in {ListRemovePosition(lst, index)} :
       ListStep(r.l,
                IF index \in 0..(Len(hist.seq) - 1) THEN RemoveAt(hist.seq, index)
                ELSE hist.seq,
                [err |-> r.err, val |-> r.val])

ListGetCall(index) == ListStep(lst, hist.seq, ListGet(lst, index))

ListReverseCall == ListStep(ListReverse(lst), Reversed(hist.seq), NoResult)

ListToSliceCall ==
    /\ fault' = ListToSlice(lst).panic
    /\ UNCHANGED <<bstVars, pqVars, contVars, thrVars>>

ListClearCall == ListStep(ListClear(lst), <<>>, NoResult)

NextList ==
    \/ \E newItem \in Keys : ListInsertFrontCall(newItem)
    \/ \E newItem \in Keys : ListInsertBackCall(newItem)
    \/ \E newItem \in Keys, position \in ListPositions :
          ListInsertPositionCall(newItem, position)
    \/ ListRemoveFrontCall
    \/ ListRemoveBackCall
    \/ \E index \in ListPositions : ListRemovePositionCall(index)
    \/ \E index \in ListPositions : ListGetCall(index)
    \/ ListReverseCall
    \/ ListToSliceCall
    \/ ListClearCall

SpecList == InitList /\ [][NextList]_vars

\* What ToSlice() returns for l when it returns.
Contents(l) == IF ListToSlice(l).panic THEN <<"panic">> ELSE ListToSlice(l).slice

\* C25: List operations refine an abstract sequence: InsertFront, InsertBack
\* and InsertPosition(x, p) with 0 <= p <= size change ToSlice() as
\* prepending, appending and inserting x at index p do; RemoveFront,
\* RemoveBack and RemovePosition(i) with 0 <= i < size delete the first, last
\* and i-th element and return it; Get(i) = ToSlice()[i]; Size() =
\* len(ToSlice()).
C25_ListRefinesSequence ==
    /\ ~fault
    /\ Contents(lst) = hist.seq
    /\ ListSize(lst) = Len(Contents(lst))
    /\ \A x \in Keys :
          /\ Contents(ListInsertFront(lst, x)) = <<x>> \o hist.seq
          /\ Contents(ListInsertBack(lst, x)) = Append(hist.seq, x)
          /\ \A p \in 0..ListSize(lst) :
                /\ ~ListInsertPosition(lst, x, p).err
                /\ Contents(ListInsertPosition(lst, x, p).l) = InsertAt(hist.seq, p, x)
    /\ hist.seq # <<>> =>
          /\ ListRemoveFront(lst).val = Head(hist.seq)
          /\ ~ListRemoveFront(lst).err
          /\ Contents(ListRemoveFront(lst).l) = Tail(hist.seq)
          /\ ListRemoveBack(lst).val = hist.seq[Len(hist.seq)]
          /\ ~ListRemoveBack(lst).err
          /\ Contents(ListRemoveBack(lst).l) = SubSeq(hist.seq, 1, Len(hist.seq) - 1)
    /\ \A i \in 0..(ListSize(lst) - 1) :
          /\ ListRemovePosition(lst, i).val = hist.seq[i + 1]
          /\ ~ListRemovePosition(lst, i).err
          /\ Contents(ListRemovePosition(lst, i).l) = RemoveAt(hist.seq, i)
          /\ ListGet(lst, i) = [err |-> FALSE, val |-> Contents(lst)[i + 1]]

\* C25 witness: a list of three items, not all equal, whose last call
\* returned an item without error.
C25_Witness ==
    /\ ListSize(lst) = 3
    /\ hist.seq[1] # hist.seq[3]
    /\ res[1] = [err |-> FALSE, val |-> 2]

\* C26: InsertPosition returns an error when position < 0 or position >
\* size, Get and RemovePosition when index < 0 or index >= size, and
\* RemoveFront/RemoveBack on an empty list; in each such case the list's
\* contents and size are unchanged.
C26_ListErrorsChangeNothing ==
    /\ \A p \in ListPositions :
          (p < 0 \/ p > ListSize(lst)) <=> ListInsertPosition(lst, 1, p).err
    /\ \A p \in ListPositions :
          ListInsertPosition(lst, 1, p).err => ListInsertPosition(lst, 1, p).l = lst
    /\ \A i \in ListPositions :
          /\ (i < 0 \/ i >= ListSize(lst)) <=> ListGet(lst, i).err
          /\ (i < 0 \/ i >= ListSize(lst)) <=> ListRemovePosition(lst, i).err
          /\ ListRemovePosition(lst, i).err => ListRemovePosition(lst, i).l = lst
    /\ ListSize(lst) = 0 <=> ListRemoveFront(lst).err
    /\ ListSize(lst) = 0 <=> ListRemoveBack(lst).err
    /\ ListRemoveFront(lst).err => ListRemoveFront(lst).l = lst
    /\ ListRemoveBack(lst).err => ListRemoveBack(lst).l = lst
    /\ res[1].err => (Contents(lst) = hist.seq /\ ListSize(lst) = Len(hist.seq))

\* C26 witness: a call on a list of two items has just returned an error.
C26_Witness ==
    /\ res[1].err
    /\ ListSize(lst) = 2

\* C27: Reverse turns the sequence s into reverse(s) in place for every size
\* (0, 1 and larger) without changing Size(), and Reverse applied twice
\* restores the original sequence.
C27_ReverseReverses ==
    /\ Contents(lst) = hist.seq
    /\ Contents(ListReverse(lst)) = Reversed(hist.seq)
    /\ ListSize(ListReverse(lst)) = ListSize(lst)
    /\ Contents(ListReverse(ListReverse(lst))) = hist.seq
    /\ ListReverse(ListReverse(lst)) = lst

\* C27 witness: a list of at least three items that differs from its
\* reverse.
C27_Witness ==
    /\ ListSize(lst) >= 3
    /\ Contents(ListReverse(lst)) # Contents(lst)

(***************************************************************************)
(* Concurrent callers.  Every public method is                             *)
(*     mu.Lock(); defer mu.Unlock(); <body>                                *)
(* A thread's call is: Acquire (Lock returns), Load (the body reads the    *)
(* container's fields), Store (the body writes them back and fixes what it *)
(* returns), Return (the deferred Unlock runs and the call returns).  The  *)
(* two-set methods of Set lock the receiver, then the argument (LockSecond)*)
(* read both sets (Compute) and unlock in reverse order (ReleaseSecond,    *)
(* Return).  A thread blocked in Lock simply has its next step disabled.   *)
(***************************************************************************)
Call(m, inst, arg) == [m |-> m, inst |-> inst, other |-> inst, arg |-> arg]

Call2(m, s1, s2) == [m |-> m, inst |-> s1, other |-> s2, arg |-> 0]

Positions == -1..MaxItems

Kinds == {"BST", "PQ", "List", "Stack", "Queue", "Set"}

InsertMethods == {"Insert", "Enqueue", "InsertFront", "InsertBack", "Push"}

GrowingMethods == InsertMethods \cup {"InsertPosition", "Add"}

TwoSetMethods ==
    {"Union", "Intersection", "Difference", "IsSubset", "IsSuperset", "Equals"}

Calls(k) ==
    CASE k = "BST" ->
           {Call(m, 1, x) : m \in {"Insert", "Remove"}, x \in Items}
           \cup {Call(m, 1, 0) : m \in {"FindMin", "FindMax", "Size", "Clear"}}
      [] k = "PQ" ->
           {Call("Enqueue", 1, x) : x \in Items}
           \cup {Call(m, 1, 0) : m \in {"ExtractTop", "Peek", "Size", "Clear"}}
      [] k = "List" ->
           {Call(m, 1, x) : m \in {"InsertFront", "InsertBack"}, x \in Items}
           \cup {Call(m, 1, i) : m \in {"InsertPosition", "RemovePosition", "Get"},
                                 i \in Positions}
           \cup {Call(m, 1, 0) : m \in {"RemoveFront", "RemoveBack", "Size", "Clear"}}
      [] k = "Stack" ->
           {Call("Push", 1, x) : x \in Items}
           \cup {Call(m, 1, 0) : m \in {"Pop", "Peek", "Size", "Clear"}}
      [] k = "Queue" ->
           {Call("Enqueue", 1, x) : x \in Items}
           \cup {Call(m, 1, 0) : m \in {"Dequeue", "Peek", "Size", "Clear"}}
      [] k = "Set" ->
           {Call(m, i, x) : m \in {"Add", "Remove"}, i \in Insts, x \in Items}
           \cup {Call(m, i, 0) : m \in {"Size", "Clear"}, i \in Insts}
           \cup {Call2(m, s1, s2) : m \in TwoSetMethods, s1 \in Insts, s2 \in Insts}

InsertCalls(k) == {c \in Calls(k) : c.m \in InsertMethods}

\* The instance's fields as the thread holding its lock reads them.
Shared(k, i) ==
    CASE k = "BST" -> bst
      [] k = "PQ" -> pq
      [] k = "List" -> lst
      [] k = "Stack" -> stk
      [] k = "Queue" -> que
      [] k = "Set" -> sets[i]

\* What Size() returns on fields st of a container of type k.
SizeOf(k, st) ==
    CASE k = "BST" -> BSTSize(st)
      [] k = "PQ" -> PQSize(st)
      [] k = "List" -> ListSize(st)
      [] k = "Stack" -> StackSize(st)
      [] k = "Queue" -> QueueSize(st)
      [] k = "Set" -> SetSize(st)

Out(st, err, val, panic) == [st |-> st, err |-> err, val |-> val, panic |-> panic]

BSTBody(c, st) ==
    CASE c.m = "Insert" -> LET r == BSTInsert(st, c.arg, 10) IN Out(r.b, FALSE, ZeroValue, r.panic)
      [] c.m = "Remove" -> LET r == BSTRemove(st, c.arg) IN Out(r.b, r.err, r.val, FALSE)
      [] c.m = "FindMin" -> LET r == BSTFindMin(st) IN Out(st, r.err, r.key, r.panic)
      [] c.m = "FindMax" -> LET r == BSTFindMax(st) IN Out(st, r.err, r.key, r.panic)
      [] c.m = "Size" -> Out(st, FALSE, BSTSize(st), FALSE)
      [] c.m = "Clear" -> Out(BSTClear(st), FALSE, ZeroValue, FALSE)

PQBody(c, st) ==
    CASE c.m = "Enqueue" -> Out(PQEnqueue(st, c.arg, 10), FALSE, ZeroValue, FALSE)
      [] c.m = "ExtractTop" -> LET r == PQExtractTop(st) IN Out(r.q, r.err, r.v, FALSE)
      [] c.m = "Peek" -> LET r == PQPeek(st) IN Out(st, r.err, r.v, FALSE)
      [] c.m = "Size" -> Out(st, FALSE, PQSize(st), FALSE)
      [] c.m = "Clear" -> Out(PQClear(st), FALSE, ZeroValue, FALSE)

ListBody(c, st) ==
    CASE c.m = "InsertFront" -> Out(ListInsertFront(st, c.arg), FALSE, ZeroValue, FALSE)
      [] c.m = "InsertBack" -> Out(ListInsertBack(st, c.arg), FALSE, ZeroValue, FALSE)
      [] c.m = "InsertPosition" ->
           LET r == ListInsertPosition(st, 1, c.arg) IN Out(r.l, r.err, ZeroValue, FALSE)
      [] c.m = "RemovePosition" ->
           LET r == ListRemovePosition(st, c.arg) IN Out(r.l, r.err, r.val, FALSE)
      [] c.m = "Get" -> LET r == ListGet(st, c.arg) IN Out(st, r.err, r.val, FALSE)
      [] c.m = "RemoveFront" -> LET r == ListRemoveFront(st) IN Out(r.l, r.err, r.val, FALSE)
      [] c.m = "RemoveBack" -> LET r == ListRemoveBack(st) IN Out(r.l, r.err, r.val, FALSE)
      [] c.m = "Size" -> Out(st, FALSE, ListSize(st), FALSE)
      [] c.m = "Clear" -> Out(ListClear(st), FALSE, ZeroValue, FALSE)

StackBody(c, st) ==
    CASE c.m = "Push" -> Out(StackPush(st, c.arg), FALSE, ZeroValue, FALSE)
      [] c.m = "Pop" -> LET r == StackPop(st) IN Out(r.st, r.err, r.val, FALSE)
      [] c.m = "Peek" -> LET r == StackPeek(st) IN Out(st, r.err, r.val, FALSE)
      [] c.m = "Size" -> Out(st, FALSE, StackSize(st), FALSE)
      [] c.m = "Clear" -> Out(StackClear(st), FALSE, ZeroValue, FALSE)

QueueBody(c, st) ==
    CASE c.m = "Enqueue" -> LET r == QueueEnqueue(st, c.arg) IN Out(r.q, FALSE, ZeroValue, r.panic)
      [] c.m = "Dequeue" -> LET r == QueueDequeue(st) IN Out(r.q, r.err, r.val, FALSE)
      [] c.m = "Peek" -> LET r == QueuePeek(st) IN Out(st, r.err, r.val, FALSE)
      [] c.m = "Size" -> Out(st, FALSE, QueueSize(st), FALSE)
      [] c.m = "Clear" -> Out(QueueClear(st), FALSE, ZeroValue, FALSE)

SetBody(c, st) ==
    CASE c.m = "Add" -> Out(SetAdd(st, c.arg), FALSE, ZeroValue, FALSE)
      [] c.m = "Remove" -> Out(SetRemove(st, c.arg), FALSE, ZeroValue, FALSE)
      [] c.m = "Size" -> Out(st, FALSE, SetSize(st), FALSE)
      [] c.m = "Clear" -> Out(SetClear(st), FALSE, ZeroValue, FALSE)

\* The body of method c of a container of type k, run on fields st.
Body(k, c, st) ==
    CASE k = "BST" -> BSTBody(c, st)
      [] k = "PQ" -> PQBody(c, st)
      [] k = "List" -> ListBody(c, st)
      [] k = "Stack" -> StackBody(c, st)
      [] k = "Queue" -> QueueBody(c, st)
      [] k = "Set" -> SetBody(c, st)

\* What a two-set method returns, from both operands' fields.
TwoSetResult(m, s1, s2) ==
    CASE m = "Union" -> SetUnion(s1.items, s2.items)
      [] m = "Intersection" -> SetIntersection(s1.items, s2.items)
      [] m = "Difference" -> SetDifference(s1.items, s2.items)
      [] m = "IsSubset" -> SetIsSubset(s1.items, s2.items)
      [] m = "IsSuperset" -> SetIsSuperset(s1.items, s2.items)
      [] m = "Equals" -> SetEquals(s1, s2)

\* sync.Mutex: Lock returns only while no thread holds the mutex.
MutexFreeMutant(m, inst) == TRUE
MutexFree(m, inst) == m[inst] = 0

\* The deferred Unlock: runs on every way out of the method, error or not.
UnlockMutant(m, inst, failed) == IF failed THEN m ELSE [m EXCEPT ![inst] = 0]
Unlock(m, inst, failed) == [m EXCEPT ![inst] = 0]

seqVars == <<nIns, nRem, pending, drained, nEnq, nExt>>

\* Lock() on the receiver returns and the method starts.
LockReceiver(t, c) ==
    /\ ~fault
    /\ pc[t] = "idle"
    /\ MutexFree(mu, c.inst)
    /\ mu' = [mu EXCEPT ![c.inst] = t]
    /\ pc' = [pc EXCEPT ![t] = IF c.m \in TwoSetMethods THEN "second" ELSE "locked"]
    /\ call' = [call EXCEPT ![t] = c]
    /\ res' = [res EXCEPT ![t] = NoResult]
    /\ UNCHANGED <<bst, pq, contVars, seqVars, kind, snap, fault>>

Acquire(t, c) == LockReceiver(t, c) /\ UNCHANGED iter

\* One round of the loop of a ConcurrentOperations goroutine: j < M, j++
\* and the call of the operation.
Iterate(t, c) ==
    /\ iter[t] < Reps
    /\ iter' = [iter EXCEPT ![t] = @ + 1]
    /\ LockReceiver(t, c)

Load(t) ==
    /\ ~fault
    /\ pc[t] = "locked"
    /\ snap' = [snap EXCEPT ![t] = Shared(kind, call[t].inst)]
    /\ pc' = [pc EXCEPT ![t] = "loaded"]
    /\ UNCHANGED <<bst, pq, contVars, seqVars, kind, mu, call, res, iter, fault>>

Store(t) ==
    /\ ~fault
    /\ pc[t] = "loaded"
    /\ \E r \in {Body(kind, call[t], snap[t])} :
       \E st \in {IF r.panic THEN Shared(kind, call[t].inst) ELSE r.st} :
           /\ bst' = IF kind = "BST" THEN st ELSE bst
           /\ pq'  = IF kind = "PQ" THEN st ELSE pq
           /\ lst' = IF kind = "List" THEN st ELSE lst
           /\ stk' = IF kind = "Stack" THEN st ELSE stk
           /\ que' = IF kind = "Queue" THEN st ELSE que
           /\ sets' = IF kind = "Set" THEN [sets EXCEPT ![call[t].inst] = st] ELSE sets
           /\ res' = [res EXCEPT ![t] = [err |-> r.err \/ r.panic, val |-> r.val]]
           /\ fault' = r.panic
    /\ snap' = [snap EXCEPT ![t] = <<>>]
    /\ pc' = [pc EXCEPT ![t] = "returning"]
    /\ UNCHANGED <<seqVars, kind, mu, call, iter, cp, aque, hist>>

LockSecond(t) ==
    /\ ~fault
    /\ pc[t] = "second"
    /\ MutexFree(mu, call[t].other)
    /\ mu' = [mu EXCEPT ![call[t].other] = t]
    /\ pc' = [pc EXCEPT ![t] = "both"]
    /\ UNCHANGED <<bst, pq, contVars, seqVars, kind, call, snap, res, iter, fault>>

Compute(t) ==
    /\ ~fault
    /\ pc[t] = "both"
    /\ res' = [res EXCEPT ![t] =
                 [err |-> FALSE,
                  val |-> TwoSetResult(call[t].m, sets[call[t].inst], sets[call[t].other])]]
    /\ pc' = [pc EXCEPT ![t] = "unlock2"]
    /\ UNCHANGED <<bst, pq, contVars, seqVars, kind, mu, call, snap, iter, fault>>

ReleaseSecond(t) ==
    /\ pc[t] = "unlock2"
    /\ mu' = Unlock(mu, call[t].other, res[t].err)
    /\ pc' = [pc EXCEPT ![t] = "returning"]
    /\ UNCHANGED <<bst, pq, contVars, seqVars, kind, call, snap, res, iter, fault>>

Return(t) ==
    /\ pc[t] = "returning"
    /\ mu' = Unlock(mu, call[t].inst, res[t].err)
    /\ pc' = [pc EXCEPT ![t] = "idle"]
    /\ call' = [call EXCEPT ![t] = NoCall]
    /\ UNCHANGED <<bst, pq, contVars, seqVars, kind, snap, res, iter, fault>>

(***************************************************************************)
(* SpecInserts: Threads threads, each making Reps insert calls on one      *)
(* shared, initially empty container (testutils.ConcurrentOperations).     *)
(***************************************************************************)
InitInserts ==
    /\ BSTFresh
    /\ \E minHeap \in BOOLEAN : PQFresh(minHeap)
    /\ ContFresh
    /\ cp = NoPair
    /\ \E k \in Kinds \ {"Set"} : ThreadsIdle(k)
    /\ fault = FALSE

NextInserts ==
    \E t \in ThreadIds :
       \/ \E c \in InsertCalls(kind) : Iterate(t, c)
       \/ Load(t)
       \/ Store(t)
       \/ Return(t)

SpecInserts == InitInserts /\ [][NextInserts]_vars

(***************************************************************************)
(* SpecThreads: Threads threads calling any public method, in any order,   *)
(* on the shared instance (for Set: on the two instances).  A method that  *)
(* adds an element is called only while Size() is below MaxItems.          *)
(***************************************************************************)
Room(c) == c.m \in GrowingMethods => SizeOf(kind, Shared(kind, c.inst)) < MaxItems

InitThreads ==
    /\ BSTFresh
    /\ \E minHeap \in BOOLEAN : PQFresh(minHeap)
    /\ ContFresh
    /\ cp = NoPair
    /\ \E k \in Kinds : ThreadsIdle(k)
    /\ fault = FALSE

NextThreads ==
    \E t \in ThreadIds :
       \/ \E c \in Calls(kind) : Room(c) /\ Acquire(t, c)
       \/ Load(t)
       \/ Store(t)
       \/ LockSecond(t)
       \/ Compute(t)
       \/ ReleaseSecond(t)
       \/ Return(t)

SpecThreads == InitThreads /\ [][NextThreads]_vars

(***************************************************************************)
(* Claims about concurrent callers.                                        *)
(***************************************************************************)
AllReturned == \A t \in ThreadIds : pc[t] = "idle" /\ iter[t] = Reps

\* C8: when Threads goroutines have each made Reps insert calls (BST Insert,
\* PriorityQueue Enqueue, List InsertFront/InsertBack, Stack Push, Queue
\* Enqueue) on one shared, initially empty container and all of them have
\* returned, Size() is exactly Threads * Reps and no call has aborted.
C8_ConcurrentInsertsAllCounted ==
    AllReturned => /\ SizeOf(kind, Shared(kind, 1)) = Threads * Reps
                   /\ ~fault

C8_Witness ==
    /\ AllReturned
    /\ kind = "Queue"
    /\ QueueSize(que) = Threads * Reps
    /\ \A i \in Insts : mu[i] = 0

\* Threads t1 and t2 each hold the receiver of a two-set call and wait in
\* Lock() for the argument, which the other one holds.
LockedInCycle(t1, t2) ==
    /\ t1 # t2
    /\ pc[t1] = "second" /\ pc[t2] = "second"
    /\ call[t1].inst # call[t1].other
    /\ call[t2].inst = call[t1].other /\ call[t2].other = call[t1].inst
    /\ mu[call[t1].inst] = t1 /\ mu[call[t2].inst] = t2

\* C9: two-set operations take the two mutexes in one fixed order, so
\* a.Union(b) on one thread and b.Union(a) on another never end up each
\* holding one mutex and waiting forever for the other's.
C9_NoDeadlock ==
    ~ \E t1 \in ThreadIds, t2 \in ThreadIds :
         /\ call[t1].m = "Union" /\ call[t2].m = "Union"
         /\ LockedInCycle(t1, t2)

\* C10: once a public method has returned, on its normal path or on an early
\* error return (BST Remove of an absent key, Dequeue/Pop/ExtractTop on an
\* empty container, a List index out of range), the calling thread holds no
\* mutex; a mutex that is held is held by a thread still inside a call.
C10_UnlockedAfterReturn ==
    /\ \A t \in ThreadIds : pc[t] = "idle" => \A i \in Insts : mu[i] # t
    /\ \A i \in Insts : mu[i] # 0 => pc[mu[i]] # "idle"

C10_Witness ==
    \E t \in ThreadIds :
       /\ pc[t] = "idle"
       /\ res[t].err
       /\ ~fault
       /\ \A i \in Insts : mu[i] = 0

(***************************************************************************)
(* A container and its Copy() in one memory.  A slice or map field refers  *)
(* to a backing object; cp.mem[r] is the object with identity r (a slice's *)
(* backing array, as long as its capacity, or a map's key set) and an      *)
(* instance is [v, ref]: its fields, with the contents it sees, and the    *)
(* object they live in.  For a List cp.mem is the node store both lists'   *)
(* nodes are allocated in and v is [front, back, size].  An instance with  *)
(* ref = 0 does not exist yet.                                             *)
(***************************************************************************)
CopyKinds == {"PQ", "List", "Stack", "Queue", "Set"}

Refs == {1, 2}

OtherSide(side) == IF side = "src" THEN "cpy" ELSE "src"

\* The slice or map field of a container of type k.
Storage(k, v) == IF k = "PQ" THEN v.heap ELSE v.items

WithStorage(k, v, c) == IF k = "PQ" THEN [v EXCEPT !.heap = c] ELSE [v EXCEPT !.items = c]

NoObject(k) == IF k = "Set" THEN {} ELSE <<>>

\* What a field of v's length reads from backing object obj.
Visible(k, v, obj) == IF k = "Set" THEN obj ELSE SubSeq(obj, 1, Len(Storage(k, v)))

ListHeader(l) == [front |-> l.front, back |-> l.back, size |-> l.size]

ListOf(h, nodes) == [front |-> h.front, back |-> h.back, size |-> h.size, nodes |-> nodes]

Absent(k) ==
    [v |-> IF k = "List" THEN ListHeader(ListNewEmpty) ELSE <<>>, ref |-> 0]

\* NewEmpty of each type.
New(k, minHeap) ==
    CASE k = "PQ" -> PQNewEmpty(minHeap)
      [] k = "List" -> ListNewEmpty
      [] k = "Stack" -> StackNewEmpty
      [] k = "Queue" -> QueueNewEmpty
      [] k = "Set" -> SetNewEmpty

\* A newly constructed container v alone in memory.
NewPair(k, v) ==
    [mem |-> IF k = "List" THEN v.nodes
             ELSE [r \in Refs |-> IF r = 1 THEN Storage(k, v) ELSE NoObject(k)],
     src |-> [v |-> IF k = "List" THEN ListHeader(v) ELSE v, ref |-> 1],
     cpy |-> Absent(k),
     last |-> "none",
     fresh |-> FALSE]

\* make / a composite literal: an object no live reference points to.
AllocRef(used) == CHOOSE r \in Refs : r \notin used

\* Copy: the object the copy's slice or map field refers to.
CopyRefMutant(srcRef) == srcRef
CopyRef(srcRef) == AllocRef({srcRef})

\* The instance on side `side` as its methods see it.
View(k, p, side) ==
    IF k = "List" THEN Canon(ListOf(p[side].v, p.mem)) ELSE p[side].v

\* The store with only the nodes either list still reaches, renumbered: the
\* source's next-chain, then the copy's, then the rest.
PairGc(p) ==
    LET hs == p.src.v
        hc == p.cpy.v
        chain == NextChain(p.mem, hc.front, NextChain(p.mem, hs.front, <<>>))
        rest == ListReach(p.mem, {hs.front, hs.back, hc.front, hc.back}, {})
                   \ {chain[i] : i \in 1..Len(chain)}
        live == chain \o Ascending(rest)
        addr(q) == IF q = NIL THEN NIL ELSE CHOOSE i \in 1..Len(live) : live[i] = q
        hdr(h) == [front |-> addr(h.front), back |-> addr(h.back), size |-> h.size]
    IN  [p EXCEPT !.mem = [i \in 1..Len(live) |->
                             [val  |-> p.mem[live[i]].val,
                              next |-> addr(p.mem[live[i]].next),
                              prev |-> addr(p.mem[live[i]].prev)]],
                  !.src.v = hdr(hs),
                  !.cpy.v = hdr(hc)]
\* The body of List method c on the store l.nodes, nothing collected.
ListBodyHeap(c, l) ==
    CASE c.m = "InsertFront" -> Out(ListInsertFrontInner(l, c.arg), FALSE, ZeroValue, FALSE)
      [] c.m = "InsertBack" -> Out(ListInsertBackInner(l, c.arg), FALSE, ZeroValue, FALSE)
      [] c.m = "InsertPosition" ->
           LET r == ListInsertPositionHeap(l, 1, c.arg) IN Out(r.l, r.err, ZeroValue, FALSE)
      [] c.m = "RemovePosition" ->
           LET r == ListRemovePositionHeap(l, c.arg) IN Out(r.l, r.err, r.val, FALSE)
      [] c.m = "Get" -> LET r == ListGet(l, c.arg) IN Out(l, r.err, r.val, FALSE)
      [] c.m = "RemoveFront" -> LET r == ListRemoveFrontInner(l) IN Out(r.l, r.err, r.val, FALSE)
      [] c.m = "RemoveBack" -> LET r == ListRemoveBackInner(l) IN Out(r.l, r.err, r.val, FALSE)
      [] c.m = "Size" -> Out(l, FALSE, ListSize(l), FALSE)
      [] c.m = "Clear" ->
           Out([front |-> NIL, back |-> NIL, size |-> 0, nodes |-> l.nodes],
               FALSE, ZeroValue, FALSE)

\* Method c run on the list on side `side`: [p, panic].
ApplyListCall(p, side, c) ==
    LET r == ListBodyHeap(c, ListOf(p[side].v, p.mem))
    IN  [p |-> PairGc([p EXCEPT !.mem = r.st.nodes, ![side].v = ListHeader(r.st),
                                !.last = side, !.fresh = FALSE]),
         panic |-> r.panic]

\* The result r of method c, run on the slice- or map-backed container on
\* side `side`, written to memory: [p, panic].  A slice longer than its backing array's capacity (append,
\* grow) and the composite literal or make of Clear get a new object, taken
\* here with capacity equal to the length; every other write goes into the
\* object the field refers to, and whoever refers to that object sees it.
WriteBack(k, p, side, c, r) ==
    LET X == p[side]
        other == OtherSide(side)
        Y == p[other]
        st == Storage(k, r.st)
        obj == p.mem[X.ref]
        realloc == \/ (k # "Queue" /\ c.m = "Clear")
                   \/ (k # "Set" /\ Len(st) > Len(obj))
        ref2 == IF realloc THEN AllocRef({Y.ref}) ELSE X.ref
        obj2 == IF k = "Set" \/ realloc THEN st
                ELSE st \o SubSeq(obj, Len(st) + 1, Len(obj))
        mem2 == [p.mem EXCEPT ![ref2] = obj2]
        mem3 == [q \in Refs |-> IF q \in {ref2, Y.ref} THEN mem2[q] ELSE NoObject(k)]
        Yv == IF Y.ref = 0 THEN Y.v
              ELSE WithStorage(k, Y.v, Visible(k, Y.v, mem3[Y.ref]))
    IN  [p |-> [p EXCEPT !.mem = mem3, ![side] = [v |-> r.st, ref |-> ref2],
                         ![other] = [v |-> Yv, ref |-> Y.ref],
                         !.last = side, !.fresh = FALSE],
         panic |-> r.panic]

\* The method's body runs on the instance's fields; its result is written back.
ApplySliceCall(k, p, side, c) == WriteBack(k, p, side, c, Body(k, c, p[side].v))

ApplyCall(k, p, side, c) ==
    IF k = "List" THEN ApplyListCall(p, side, c) ELSE ApplySliceCall(k, p, side, c)

\* Copy() of a slice- or map-backed container: [st, panic].
ValueCopy(k, v) ==
    CASE k = "PQ" -> LET r == PQCopy(v) IN [st |-> r.q, panic |-> r.panic]
      [] k = "Stack" -> [st |-> StackCopy(v), panic |-> FALSE]
      [] k = "Queue" -> [st |-> QueueCopy(v), panic |-> FALSE]
      [] k = "Set" -> [st |-> SetCopy(v), panic |-> FALSE]

\* Copy() called on the source; its result becomes the copy side: [p, panic].
ApplyCopy(k, p) ==
    IF k = "List"
    THEN LET r == ListCopyHeap(ListOf(p.src.v, p.mem))
         IN  [p |-> PairGc([p EXCEPT !.mem = r.l.nodes,
                                     !.cpy = [v |-> ListHeader(r.l), ref |-> 2],
                                     !.last = "copy", !.fresh = TRUE]),
              panic |-> r.panic]
    ELSE LET r == ValueCopy(k, p.src.v)
             ref == CopyRef(p.src.ref)
         IN  [p |-> [p EXCEPT !.mem = [p.mem EXCEPT ![ref] = Storage(k, r.st)],
                              !.cpy = [v |-> r.st, ref |-> ref],
                              !.last = "copy", !.fresh = TRUE],
              panic |-> r.panic]

PairCalls(k) == {c \in Calls(k) : c.inst = 1 /\ c.m \notin TwoSetMethods}

PairRoom(side, c) ==
    c.m \in GrowingMethods => SizeOf(kind, cp[side].v) < MaxItems

pairFrame == <<bstVars, pqVars, lst, stk, que, aque, sets, hist, thrVars>>

CallOnSide(side, c) ==
    /\ ~fault
    /\ cp[side].ref # 0
    /\ PairRoom(side, c)
    /\ \E r \in {ApplyCall(kind, cp, side, c)} :
           /\ cp' = IF r.panic THEN cp ELSE r.p
           /\ fault' = r.panic
    /\ UNCHANGED pairFrame

CallOnSource(c) == CallOnSide("src", c)

CallOnCopy(c) == CallOnSide("cpy", c)

MakeCopy ==
    /\ ~fault
    /\ \E r \in {ApplyCopy(kind, cp)} :
           /\ cp' = IF r.panic THEN cp ELSE r.p
           /\ fault' = r.panic
    /\ UNCHANGED pairFrame

(***************************************************************************)
(* SpecCopy: one caller working on a container and on copies made of it    *)
(* with Copy(), calling any single-container method on either, in any      *)
(* order; a method that adds an element is called while Size() < MaxItems. *)
(***************************************************************************)
InitCopy ==
    /\ BSTFresh
    /\ PQFresh(TRUE)
    /\ ContFresh
    /\ \E k \in CopyKinds :
          /\ ThreadsIdle(k)
          /\ \E minHeap \in BOOLEAN : cp = NewPair(k, New(k, minHeap))
    /\ fault = FALSE

NextCopy ==
    \/ \E c \in PairCalls(kind) : CallOnSource(c)
    \/ \E c \in PairCalls(kind) : CallOnCopy(c)
    \/ MakeCopy

SpecCopy == InitCopy /\ [][NextCopy]_vars

\* C13: Copy() of a PriorityQueue, Stack, Queue, List or Set returns a
\* container with the source's contents (for a PriorityQueue also its
\* minHeap orientation), and from then on a call on the copy leaves what the
\* source holds and its Size() unchanged, and a call on the source leaves the
\* copy unchanged.
C13_CopiesAreIndependent ==
    /\ [](cp.fresh => View(kind, cp, "cpy") = View(kind, cp, "src"))
    /\ [][/\ (cp'.last = "src" /\ cp.cpy.ref # 0) =>
                View(kind, cp', "cpy") = View(kind, cp, "cpy")
          /\ cp'.last = "cpy" => View(kind, cp', "src") = View(kind, cp, "src")
          /\ cp'.last = "copy" => View(kind, cp', "src") = View(kind, cp, "src")]_vars

\* C13 witness: a copy was made of a container holding several elements, and
\* later calls on both have left the two with different contents.
C13_Witness ==
    /\ cp.cpy.ref # 0
    /\ cp.last = "cpy"
    /\ SizeOf(kind, cp.src.v) >= 2
    /\ SizeOf(kind, cp.cpy.v) >= 1
    /\ View(kind, cp, "cpy") # View(kind, cp, "src")

(***************************************************************************)
(* A container and the slice its caller holds, in one memory.  cp.mem[r]   *)
(* is backing array r.  cp.ext = [ref, len, from] is the caller's slice:   *)
(* the argument of NewFromSlice, later the latest result of ToSlice.       *)
(* cp.c = [v, ref] is the container: its fields, and the array its items   *)
(* field refers to (0 for the List, which has none).  The caller writes    *)
(* elements of its slice; the container's methods read and write the array *)
(* its field refers to.  cp.last names the last step.                      *)
(***************************************************************************)
SliceKinds == {"Stack", "Queue", "AQueue", "List"}

\* copiedSlice := make([]T, n): an array no slice held so far refers to.
MakeRefMutant(held) == held
MakeRef(held) == AllocRef({held})

NewFromSliceOf(k, slice) ==
    CASE k = "Stack" -> StackNewFromSlice(slice)
      [] k = "Queue" -> QueueNewFromSlice(slice)
      [] k = "AQueue" -> AQueueNewFromSlice(slice)
      [] k = "List" -> ListNewFromSlice(slice)

\* ToSlice of each type: [slice, panic].
ToSliceOf(k, v) ==
    CASE k = "Stack" -> [slice |-> StackToSlice(v), panic |-> FALSE]
      [] k = "Queue" -> QueueToSlice(v)
      [] k = "AQueue" -> [slice |-> AQueueToSlice(v), panic |-> FALSE]
      [] k = "List" -> ListToSlice(v)

\* Push, Enqueue, InsertBack: [v, panic].
AddOf(k, v, x) ==
    CASE k = "Stack" -> [v |-> StackPush(v, x), panic |-> FALSE]
      [] k = "Queue" -> [v |-> QueueEnqueue(v, x).q, panic |-> QueueEnqueue(v, x).panic]
      [] k = "AQueue" -> [v |-> AQueueEnqueue(v, x), panic |-> FALSE]
      [] k = "List" -> [v |-> ListInsertBack(v, x), panic |-> FALSE]

\* Pop, Dequeue, RemoveFront: [v, err, val].
TakeOf(k, v) ==
    CASE k = "Stack" -> [v |-> StackPop(v).st, err |-> StackPop(v).err, val |-> StackPop(v).val]
      [] k = "Queue" -> [v |-> QueueDequeue(v).q, err |-> QueueDequeue(v).err,
                         val |-> QueueDequeue(v).val]
      [] k = "AQueue" -> [v |-> AQueueDequeue(v).q, err |-> AQueueDequeue(v).err,
                          val |-> AQueueDequeue(v).val]
      [] k = "List" -> [v |-> ListRemoveFront(v).l, err |-> ListRemoveFront(v).err,
                        val |-> ListRemoveFront(v).val]

CountOf(k, v) ==
    CASE k = "Stack" -> StackSize(v)
      [] k = "Queue" -> QueueSize(v)
      [] k = "AQueue" -> AQueueSize(v)
      [] k = "List" -> ListSize(v)

\* The container's fields as its methods read them: the items field reads
\* the array it refers to.
Fields(k, c, mem) ==
    IF k = "List" THEN c.v
    ELSE [c.v EXCEPT !.items = SubSeq(mem[c.ref], 1, Len(c.v.items))]

\* The fields v assigned by a method: an items field longer than its array
\* (append, grow) gets a new array, every other write goes into the array
\* the field refers to.
Assign(k, p, v) ==
    IF k = "List" THEN [p EXCEPT !.c.v = v, !.last = "call"]
    ELSE IF Len(v.items) > Len(p.mem[p.c.ref])
    THEN [p EXCEPT !.mem[AllocRef({p.ext.ref})] = v.items,
                   !.c = [v |-> v, ref |-> AllocRef({p.ext.ref})],
                   !.last = "call"]
    ELSE [p EXCEPT !.mem[p.c.ref] =
                       v.items \o SubSeq(p.mem[p.c.ref], Len(v.items) + 1,
                                         Len(p.mem[p.c.ref])),
                   !.c.v = v, !.last = "call"]

\* The arrays some slice still refers to; the others hold nothing.
Sweep(p) ==
    [p EXCEPT !.mem = [r \in Refs |-> IF r \in {p.c.ref, p.ext.ref} THEN p.mem[r] ELSE <<>>]]

\* The container read again after a write to memory.
Reread(k, p) == [p EXCEPT !.c.v = Fields(k, p.c, p.mem)]

sliceFrame == <<bstVars, pqVars, lst, stk, que, aque, sets, hist, thrVars>>

InitSlices ==
    /\ BSTFresh
    /\ PQFresh(TRUE)
    /\ ContFresh
    /\ fault = FALSE
    /\ \E k \in SliceKinds, slice \in Slices :
          /\ ThreadsIdle(k)
          /\ cp = Sweep([mem |-> [r \in Refs |->
                                    IF r = 1 THEN slice
                                    ELSE IF k # "List" /\ r = MakeRef(1)
                                    THEN NewFromSliceOf(k, slice).items
                                    ELSE <<>>],
                         c |-> [v |-> NewFromSliceOf(k, slice),
                                ref |-> IF k = "List" THEN 0 ELSE MakeRef(1)],
                         ext |-> [ref |-> 1, len |-> Len(slice), from |-> "NewFromSlice"],
                         last |-> "new"])

\* slice[i] = x by the caller.
CallerWrite(i, x) ==
    /\ ~fault
    /\ i < cp.ext.len
    /\ cp' = Reread(kind, [cp EXCEPT !.mem[cp.ext.ref][i + 1] = x, !.last = "write"])
    /\ UNCHANGED <<sliceFrame, fault>>

AddCall(x) ==
    /\ ~fault
    /\ CountOf(kind, cp.c.v) < MaxItems
    /\ kind # "List" => Len(cp.c.v.items) < MaxQueued
    /\ \E r \in {AddOf(kind, Fields(kind, cp.c, cp.mem), x)} :
          /\ fault' = r.panic
          /\ cp' = IF r.panic THEN cp ELSE Sweep(Assign(kind, cp, r.v))
    /\ UNCHANGED sliceFrame

TakeCall ==
    /\ ~fault
    /\ cp' = Sweep(Assign(kind, cp, TakeOf(kind, Fields(kind, cp.c, cp.mem)).v))
    /\ UNCHANGED <<sliceFrame, fault>>

ToSliceCall ==
    /\ ~fault
    /\ \E r \in {ToSliceOf(kind, Fields(kind, cp.c, cp.mem))} :
          /\ fault' = r.panic
          /\ cp' = IF r.panic THEN cp
                   ELSE Reread(kind,
                          Sweep([cp EXCEPT !.mem[MakeRef(cp.c.ref)] = r.slice,
                                           !.ext = [ref |-> MakeRef(cp.c.ref),
                                                    len |-> Len(r.slice),
                                                    from |-> "ToSlice"],
                                           !.last = "toslice"]))
    /\ UNCHANGED sliceFrame

NextSlices ==
    \/ \E i \in 0..MaxItems, x \in Keys \ Items : CallerWrite(i, x)
    \/ \E x \in Items : AddCall(x)
    \/ TakeCall
    \/ ToSliceCall

SpecSlices == InitSlices /\ [][NextSlices]_vars

\* What the next calls on the container return: ToSlice, Pop / Dequeue /
\* RemoveFront, and for the List Get of every index.
Observed(k, p) ==
    [toSlice |-> ToSliceOf(k, Fields(k, p.c, p.mem)),
     taken |-> [err |-> TakeOf(k, Fields(k, p.c, p.mem)).err,
                val |-> TakeOf(k, Fields(k, p.c, p.mem)).val],
     get |-> IF k = "List" THEN [i \in 0..MaxItems |-> ListGet(p.c.v, i)] ELSE <<>>,
     size |-> CountOf(k, p.c.v)]

\* C24: no caller-visible slice aliases container storage: a write to the
\* slice passed to Stack/Queue NewFromSlice, or to a slice returned by
\* Stack/Queue/List ToSlice, never changes what later Pop, Dequeue, Get or
\* ToSlice calls on the container return.
C24_CallerSlicesDoNotAlias ==
    [][cp'.last = "write" => Observed(kind, cp') = Observed(kind, cp)]_vars

\* C24 witness: the caller has just written to a slice returned by ToSlice,
\* which now differs from the two or more items of the container.
C24_Witness ==
    /\ cp.last = "write"
    /\ cp.ext.from = "ToSlice"
    /\ CountOf(kind, cp.c.v) >= 2
    /\ ~ToSliceOf(kind, Fields(kind, cp.c, cp.mem)).panic
    /\ ToSliceOf(kind, Fields(kind, cp.c, cp.mem)).slice # cp.mem[cp.ext.ref]

(***************************************************************************)
(* Sequential Sets: one caller holding two Set instances.  Each instance   *)
(* is built by NewFromSlice (the slices include repeated items) and then   *)
(* changed by Add, Remove and Clear; the two-set methods are called with   *)
(* one instance as receiver and the other as argument.  call[1] is the     *)
(* last call, snap[1] both instances' fields when it started, res[1] what  *)
(* it returned.                                                            *)
(***************************************************************************)
setsFrame ==
    <<bstVars, pqVars, lst, stk, que, aque, cp, hist, kind, mu, pc, iter, fault>>

InitSets ==
    /\ BSTFresh
    /\ PQFresh(TRUE)
    /\ ContFresh
    /\ cp = NoPair
    /\ ThreadsIdle("Set")
    /\ fault = FALSE

\* What the caller notes of a call: the call, the fields before it and the
\* value returned.
Noted(m, inst, other, arg, val) ==
    /\ call' = [call EXCEPT ![1] = [m |-> m, inst |-> inst, other |-> other, arg |-> arg]]
    /\ snap' = [snap EXCEPT ![1] = sets]
    /\ res' = [res EXCEPT ![1] = [err |-> FALSE, val |-> val]]
    /\ UNCHANGED setsFrame

SetNewFromSliceCall(inst, slice) ==
    /\ sets' = [sets EXCEPT ![inst] = SetNewFromSlice(slice)]
    /\ Noted("NewFromSlice", inst, inst, slice, ZeroValue)

SetAddCall(inst, newItem) ==
    /\ sets' = [sets EXCEPT ![inst] = SetAdd(sets[inst], newItem)]
    /\ Noted("Add", inst, inst, newItem, ZeroValue)

SetRemoveCall(inst, item) ==
    /\ sets' = [sets EXCEPT ![inst] = SetRemove(sets[inst], item)]
    /\ Noted("Remove", inst, inst, item, ZeroValue)

SetClearCall(inst) ==
    /\ sets' = [sets EXCEPT ![inst] = SetClear(sets[inst])]
    /\ Noted("Clear", inst, inst, ZeroValue, ZeroValue)

SetSizeCall(inst) ==
    /\ sets' = sets
    /\ Noted("Size", inst, inst, ZeroValue, SetSize(sets[inst]))

\* s1.m(s2) for two different instances: both mutexes are free, so the two
\* Lock calls return and the body runs on both instances' fields.
TwoSetCall(m, s1, s2) ==
    /\ s1 # s2
    /\ sets' = sets
    /\ Noted(m, s1, s2, ZeroValue, TwoSetResult(m, sets[s1], sets[s2]))

NextSets ==
    \/ \E inst \in Insts, slice \in Slices : SetNewFromSliceCall(inst, slice)
    \/ \E inst \in Insts, newItem \in Keys : SetAddCall(inst, newItem)
    \/ \E inst \in Insts, item \in Keys : SetRemoveCall(inst, item)
    \/ \E inst \in Insts : SetClearCall(inst)
    \/ \E inst \in Insts : SetSizeCall(inst)
    \/ \E m \in TwoSetMethods, s1 \in Insts, s2 \in Insts : TwoSetCall(m, s1, s2)

SpecSets == InitSets /\ [][NextSets]_vars

\* A Set value with the given members.
SetOf(members) == [items |-> members, size |-> Cardinality(members)]

\* C28: for two Sets a and b, a.Union(b), a.Intersection(b) and
\* a.Difference(b) return a new Set whose members are exactly the union,
\* the intersection and the difference a minus b, whose Size() is the
\* number of those members, and a and b are left unchanged.
C28_UnionIntersectionDifference ==
    /\ \A a \in Insts : \A b \in Insts \ {a} :
          /\ SetUnion(sets[a].items, sets[b].items) = SetOf(sets[a].items \cup sets[b].items)
          /\ SetIntersection(sets[a].items, sets[b].items)
                = SetOf(sets[a].items \cap sets[b].items)
          /\ SetDifference(sets[a].items, sets[b].items)
                = SetOf(sets[a].items \ sets[b].items)
    /\ call[1].m \in {"Union", "Intersection", "Difference"} =>
          /\ sets = snap[1]
          /\ SetSize(res[1].val) = Cardinality(res[1].val.items)
          /\ res[1].val.items =
                CASE call[1].m = "Union" ->
                        snap[1][call[1].inst].items \cup snap[1][call[1].other].items
                  [] call[1].m = "Intersection" ->
                        snap[1][call[1].inst].items \cap snap[1][call[1].other].items
                  [] call[1].m = "Difference" ->
                        snap[1][call[1].inst].items \ snap[1][call[1].other].items

\* C28 witness: a.Difference(b) has just returned for two overlapping sets
\* neither of which contains the other, and differs from b.Difference(a).
C28_Witness ==
    /\ call[1].m = "Difference"
    /\ sets[call[1].inst].items \cap sets[call[1].other].items # {}
    /\ res[1].val.items # {}
    /\ SetDifference(sets[call[1].other].items, sets[call[1].inst].items).items # {}
    /\ SetUnion(sets[1].items, sets[2].items).size = MaxKey

\* C29: for two distinct Sets a and b, a.IsSubset(b) is true exactly when
\* every member of a is in b, a.IsSuperset(b) equals b.IsSubset(a), and
\* a.Equals(b) is true exactly when a.IsSubset(b) and b.IsSubset(a).
C29_SubsetSupersetEquals ==
    /\ \A a \in Insts : \A b \in Insts \ {a} :
          /\ SetIsSubset(sets[a].items, sets[b].items) = (sets[a].items \subseteq sets[b].items)
          /\ SetIsSuperset(sets[a].items, sets[b].items)
                = SetIsSubset(sets[b].items, sets[a].items)
          /\ SetEquals(sets[a], sets[b])
                = (/\ SetIsSubset(sets[a].items, sets[b].items)
                   /\ SetIsSubset(sets[b].items, sets[a].items))
    /\ call[1].m \in {"IsSubset", "IsSuperset", "Equals"} =>
          /\ sets = snap[1]
          /\ res[1].val =
                CASE call[1].m = "IsSubset" ->
                        (sets[call[1].inst].items \subseteq sets[call[1].other].items)
                  [] call[1].m = "IsSuperset" ->
                        (sets[call[1].other].items \subseteq sets[call[1].inst].items)
                  [] call[1].m = "Equals" ->
                        (sets[call[1].inst].items = sets[call[1].other].items)

\* C29 witness: a.Equals(b) has just returned false for a proper subset a
\* of b with at least one member.
C29_Witness ==
    /\ call[1].m = "Equals"
    /\ ~res[1].val
    /\ sets[call[1].inst].items # {}
    /\ sets[call[1].inst].items \subseteq sets[call[1].other].items
    /\ sets[call[1].inst].items # sets[call[1].other].items

\* C30: in every state reached by NewFromSlice, Add, Remove and Clear the
\* size counter equals the number of distinct members: Add of an item
\* already present and Remove of an item not present change nothing, and
\* NewFromSlice of a slice with repeated items has Size() equal to the
\* number of distinct items.
C30_SizeCountsDistinctMembers ==
    /\ \A inst \in Insts :
          /\ SetSize(sets[inst]) = Cardinality(sets[inst].items)
          /\ \A x \in sets[inst].items : SetAdd(sets[inst], x) = sets[inst]
          /\ \A x \in Keys \ sets[inst].items : SetRemove(sets[inst], x) = sets[inst]
    /\ \A slice \in Slices : SetNewFromSlice(slice) = SetOf(Range(slice))
    /\ (call[1].m = "Add" /\ call[1].arg \in snap[1][call[1].inst].items) => sets = snap[1]
    /\ (call[1].m = "Remove" /\ call[1].arg \notin snap[1][call[1].inst].items) =>
          sets = snap[1]
    /\ call[1].m = "NewFromSlice" =>
          SetSize(sets[call[1].inst]) = Cardinality(Range(call[1].arg))
    /\ call[1].m = "Size" => res[1].val = Cardinality(sets[call[1].inst].items)

\* C30 witness: Add of an item already present has just returned on a set
\* with two members, while the other set was built by NewFromSlice from a
\* slice that repeats one item.
C30_Witness ==
    /\ call[1].m = "Add"
    /\ call[1].arg \in snap[1][call[1].inst].items
    /\ SetSize(sets[call[1].inst]) = 2
    /\ \E other \in Insts \ {call[1].inst}, slice \in Slices :
          /\ Len(slice) = 2
          /\ slice[1] = slice[2]
          /\ sets[other] = SetNewFromSlice(slice)

(***************************************************************************)
(* SpecRemovals: a container filled with Threads * Reps items by one       *)
(* caller (the loop of Insert / Enqueue / InsertBack / Push calls at the   *)
(* start of the Concurrent removal tests), then Threads threads each       *)
(* making Reps removal calls (testutils.ConcurrentOperations).  hist.seq   *)
(* is the sequence of keys, priorities or items the container was filled   *)
(* with.                                                                   *)
(***************************************************************************)
RemovalKinds == Kinds \ {"Set"}

FillMethod(k) ==
    CASE k = "BST" -> "Insert"
      [] k = "PQ" -> "Enqueue"
      [] k = "List" -> "InsertBack"
      [] k = "Stack" -> "Push"
      [] k = "Queue" -> "Enqueue"

\* for i := 0; i < K; i++ { container.Insert(...) } on fields st.
RECURSIVE Fill(_, _, _)
Fill(k, st, seq) ==
    IF seq = <<>> THEN st
    ELSE Fill(k, Body(k, Call(FillMethod(k), 1, Head(seq)), st).st, Tail(seq))

\* What the tests fill the container with: K times the same item, or (not
\* for the BST, whose K items have one key) the items 1, 2, ..., K.
Fillings(k) ==
    {[i \in 1..(Threads * Reps) |-> x] : x \in Items}
    \cup (IF k = "BST" THEN {} ELSE {[i \in 1..(Threads * Reps) |-> i]})

RemovalCalls(k) ==
    CASE k = "BST" -> {Call("Remove", 1, hist.seq[1])}
      [] k = "PQ" -> {Call("ExtractTop", 1, 0)}
      [] k = "List" -> {Call("RemoveFront", 1, 0), Call("RemoveBack", 1, 0),
                        Call("RemovePosition", 1, 0)}
      [] k = "Stack" -> {Call("Pop", 1, 0)}
      [] k = "Queue" -> {Call("Dequeue", 1, 0)}

InitRemovals ==
    /\ nIns = 0 /\ nRem = 0
    /\ pending = EmptyBag /\ drained = <<>> /\ nEnq = 0 /\ nExt = 0
    /\ sets = [i \in Insts |-> SetNewEmpty]
    /\ aque = AQueueNewEmpty
    /\ cp = NoPair
    /\ fault = FALSE
    /\ \E k \in RemovalKinds, minHeap \in BOOLEAN :
       \E seq \in Fillings(k) :
          /\ ThreadsIdle(k)
          /\ hist = [seq |-> seq, grewWrapped |-> FALSE]
          /\ bst = Fill("BST", BSTNewEmpty, IF k = "BST" THEN seq ELSE <<>>)
          /\ pq = Fill("PQ", PQNewEmpty(minHeap), IF k = "PQ" THEN seq ELSE <<>>)
          /\ lst = Fill("List", ListNewEmpty, IF k = "List" THEN seq ELSE <<>>)
          /\ stk = Fill("Stack", StackNewEmpty, IF k = "Stack" THEN seq ELSE <<>>)
          /\ que = Fill("Queue", QueueNewEmpty, IF k = "Queue" THEN seq ELSE <<>>)

NextRemovals ==
    \E t \in ThreadIds :
       \/ \E c \in RemovalCalls(kind) : Iterate(t, c)
       \/ Load(t)
       \/ Store(t)
       \/ Return(t)

SpecRemovals == InitRemovals /\ [][NextRemovals]_vars

\* C31: when a container holds K items and the threads together issue
\* exactly K removals (BST Remove of a key present K times, PriorityQueue
\* ExtractTop, List RemoveFront / RemoveBack / RemovePosition(0), Queue
\* Dequeue, Stack Pop) and nothing else, no removal returns an error or
\* aborts, under every interleaving, and once all have returned Size() is 0.
C31_ConcurrentRemovalsAllSucceed ==
    /\ ~fault
    /\ \A t \in ThreadIds : ~res[t].err
    /\ AllReturned => SizeOf(kind, Shared(kind, 1)) = 0

\* C31 witness: all removals have returned on a BST that held K equal keys,
\* and the tree is empty.
C31_Witness ==
    /\ AllReturned
    /\ kind = "BST"
    /\ Len(hist.seq) = Threads * Reps
    /\ bst.root = NIL
    /\ BSTSize(bst) = 0
    /\ \A i \in Insts : mu[i] = 0

(***************************************************************************)
(* The PriorityQueue's heap order, for concurrent callers (SpecThreads     *)
(* with the PriorityQueue as the shared container).                        *)
(***************************************************************************)
\* heap[(i-1)/2] compares <= heap[i] in a min-heap, >= in a max-heap, for
\* every index i >= 1 of the heap.
HeapOrdered(q) ==
    \A i \in 1..(q.size - 1) :
       LET comparison == Comparator(At(q.heap, (i - 1) \div 2).p, At(q.heap, i).p)
       IN  IF q.minHeap THEN comparison <= 0 ELSE comparison >= 0

\* C32: at every point where the PriorityQueue's lock is released, after
\* any interleaving of Enqueue, ExtractTop and Clear, the heap order holds
\* for all indices i >= 1; the heap a further Enqueue, ExtractTop or Clear
\* would leave is in heap order too.
C32_HeapOrderWhenUnlocked ==
    (kind = "PQ" /\ mu[1] = 0) =>
       /\ HeapOrdered(pq)
       /\ Len(pq.heap) = pq.size
       /\ \A p \in Prios : HeapOrdered(PQEnqueue(pq, p, 10))
       /\ HeapOrdered(PQExtractTop(pq).q)
       /\ HeapOrdered(PQClear(pq))

\* C32 witness: the lock is free, an ExtractTop or Peek has returned to
\* some thread, and the max-heap holds MaxItems nodes with a top of higher
\* priority than its second child.
C32_Witness ==
    /\ kind = "PQ"
    /\ mu[1] = 0
    /\ ~pq.minHeap
    /\ pq.size = MaxItems
    /\ At(pq.heap, 0).p > At(pq.heap, 2).p
    /\ \E t \in ThreadIds : pc[t] = "idle" /\ ~res[t].err /\ res[t].val = 10

(***************************************************************************)
(* SpecSetReads: threads calling Add and Remove on two Sets while others   *)
(* call the two-set methods on them.  The body of a two-set method reads   *)
(* the receiver's fields (ReadFirst) and then the argument's (ReadSecond), *)
(* as two steps between which other threads may run.                       *)
(***************************************************************************)
SetReadCalls ==
    {Call(m, i, x) : m \in {"Add", "Remove"}, i \in Insts, x \in Items}
    \cup {c \in {Call2(m, s1, s2) : m \in TwoSetMethods, s1 \in Insts, s2 \in Insts} :
               c.inst # c.other}

InitSetReads ==
    /\ BSTFresh
    /\ PQFresh(TRUE)
    /\ lst = ListNewEmpty
    /\ stk = StackNewEmpty
    /\ que = QueueNewEmpty
    /\ aque = AQueueNewEmpty
    /\ hist = NoHistory
    /\ cp = NoPair
    /\ ThreadsIdle("Set")
    /\ fault = FALSE
    /\ \E slice1 \in Slices, slice2 \in Slices :
          sets = [i \in Insts |-> SetNewFromSlice(IF i = 1 THEN slice1 ELSE slice2)]

\* for key := range s1.items, s1.size: the receiver's fields are read.
ReadFirst(t) ==
    /\ pc[t] = "both"
    /\ snap' = [snap EXCEPT ![t] = sets[call[t].inst]]
    /\ pc' = [pc EXCEPT ![t] = "read1"]
    /\ UNCHANGED <<bst, pq, contVars, seqVars, kind, mu, call, res, iter, fault>>

\* s2.items[key], s2.size: the argument's fields are read and the result
\* is fixed.
ReadSecond(t) ==
    /\ pc[t] = "read1"
    /\ res' = [res EXCEPT ![t] =
                 [err |-> FALSE,
                  val |-> TwoSetResult(call[t].m, snap[t], sets[call[t].other])]]
    /\ pc' = [pc EXCEPT ![t] = "unlock2"]
    /\ UNCHANGED <<bst, pq, contVars, seqVars, kind, mu, call, snap, iter, fault>>

NextSetReads ==
    \E t \in ThreadIds :
       \/ \E c \in SetReadCalls : Acquire(t, c)
       \/ Load(t)
       \/ Store(t)
       \/ LockSecond(t)
       \/ ReadFirst(t)
       \/ ReadSecond(t)
       \/ ReleaseSecond(t)
       \/ Return(t)

SpecSetReads == InitSetReads /\ [][NextSetReads]_vars

\* C33: a two-set operation running concurrently with Add / Remove calls
\* on its operands reads both sets only while it holds both locks, so what
\* it has read of the receiver is still the receiver's content when it
\* reads the argument, and its result is the operation applied to the
\* contents both sets have at the instant the result is fixed.
C33_TwoSetResultIsOneInstant ==
    \A t \in ThreadIds :
       /\ pc[t] \in {"both", "read1", "unlock2"} =>
             /\ mu[call[t].inst] = t
             /\ mu[call[t].other] = t
       /\ pc[t] = "read1" => snap[t] = sets[call[t].inst]
       /\ pc[t] = "unlock2" =>
             res[t].val = TwoSetResult(call[t].m, sets[call[t].inst], sets[call[t].other])

\* C33 witness: a.Difference(b) has fixed a non-empty result while the
\* other thread, which has had an Add or Remove return, waits to start its
\* next call; the sets are no longer the ones the run started with.
C33_Witness ==
    \E t \in ThreadIds, u \in ThreadIds :
       /\ t # u
       /\ pc[t] = "unlock2"
       /\ call[t].m = "Difference"
       /\ res[t].val.items # {}
       /\ sets[call[t].other].items # {}
       /\ pc[u] = "idle"
       /\ sets[1].size + sets[2].size = 3

(***************************************************************************)
(* SpecCalls: the calls a public method makes while it holds its           *)
(* receiver's mutex.  A callee runs on the receiver ("self") or on an      *)
(* object the method has just created ("fresh"), and either starts with    *)
(* mu.Lock() (locks) or does not.  snap[t] is the callee thread t is in.   *)
(***************************************************************************)
Callee(on, m, locks) == [on |-> on, m |-> m, locks |-> locks]

\* List.InsertPosition calling the public InsertFront instead of insertFront.
CalleesMutant(k, m) ==
    IF k = "List" /\ m = "InsertPosition"
    THEN {Callee("self", "InsertFront", TRUE)}
    ELSE {}

\* The method calls in the body of public method m of type k.
Callees(k, m) ==
    CASE k = "BST" /\ m = "Remove" -> {Callee("self", "removeHelper", FALSE)}
      [] k = "PQ" /\ m = "Enqueue" -> {Callee("self", "heapifyUp", FALSE)}
      [] k = "PQ" /\ m = "ExtractTop" -> {Callee("self", "heapifyDown", FALSE)}
      [] k = "List" /\ m = "InsertFront" -> {Callee("self", "insertFront", FALSE)}
      [] k = "List" /\ m = "InsertBack" -> {Callee("self", "insertBack", FALSE)}
      [] k = "List" /\ m = "InsertPosition" ->
           {Callee("self", "insertFront", FALSE), Callee("self", "insertBack", FALSE)}
      [] k = "List" /\ m = "RemoveFront" -> {Callee("self", "removeFront", FALSE)}
      [] k = "List" /\ m = "RemoveBack" -> {Callee("self", "removeBack", FALSE)}
      [] k = "List" /\ m = "RemovePosition" ->
           {Callee("self", "removeFront", FALSE), Callee("self", "removeBack", FALSE)}
      [] k = "List" /\ m = "Copy" -> {Callee("fresh", "insertBack", FALSE)}
      [] k = "Queue" /\ m = "Enqueue" -> {Callee("self", "grow", FALSE)}
      [] k = "Set" /\ m \in {"Copy", "Union", "Intersection", "Difference"} ->
           {Callee("fresh", "Add", TRUE)}
      [] OTHER -> {}

\* The public methods called: on instance 1, the two-set methods with
\* instance 2 as argument.
PublicCalls(k) ==
    {Call(m, 1, 0) : m \in ({c.m : c \in Calls(k)} \cup {"Copy"}) \ TwoSetMethods}
    \cup (IF k = "Set" THEN {Call2(m, 1, 2) : m \in TwoSetMethods} ELSE {})

callFrame == <<bst, pq, contVars, seqVars, kind, mu, call, res, iter, fault>>

\* The body reaches a call of callee h.
CallHelper(t, h) ==
    /\ pc[t] \in {"locked", "both"}
    /\ snap' = [snap EXCEPT ![t] = [h |-> h, from |-> pc[t]]]
    /\ pc' = [pc EXCEPT ![t] = "nested"]
    /\ UNCHANGED callFrame

\* The callee starts: its mu.Lock(), if it has one, returns.  The mutex of
\* a fresh object is free; the receiver's is the one in mu.
EnterHelper(t) ==
    /\ pc[t] = "nested"
    /\ (snap[t].h.locks /\ snap[t].h.on = "self") => MutexFree(mu, call[t].inst)
    /\ pc' = [pc EXCEPT ![t] = "inner"]
    /\ UNCHANGED <<callFrame, snap>>

\* The callee returns (after its deferred Unlock, if it locked).
LeaveHelper(t) ==
    /\ pc[t] = "inner"
    /\ pc' = [pc EXCEPT ![t] = snap[t].from]
    /\ snap' = [snap EXCEPT ![t] = <<>>]
    /\ UNCHANGED callFrame

\* The body of the public method ends.
EndBody(t) ==
    /\ pc[t] \in {"locked", "both"}
    /\ pc' = [pc EXCEPT ![t] = IF pc[t] = "both" THEN "unlock2" ELSE "returning"]
    /\ UNCHANGED <<callFrame, snap>>

NextCalls ==
    \E t \in ThreadIds :
       \/ \E c \in PublicCalls(kind) : Acquire(t, c)
       \/ LockSecond(t)
       \/ \E h \in Callees(kind, call[t].m) : CallHelper(t, h)
       \/ EnterHelper(t)
       \/ LeaveHelper(t)
       \/ EndBody(t)
       \/ ReleaseSecond(t)
       \/ Return(t)

SpecCalls == InitThreads /\ [][NextCalls]_vars

\* C34: no public method calls a lock-acquiring method of the instance
\* whose lock it holds: what it calls on its receiver (removeHelper,
\* insertFront, insertBack, removeFront, removeBack, heapifyUp,
\* heapifyDown, grow) never locks, and the only locking method called, Add
\* from Set.Copy / Union / Intersection / Difference, runs on a freshly
\* created set; so no thread waits for a mutex it holds itself.
C34_NoNestedLockOnReceiver ==
    \A t \in ThreadIds :
       pc[t] \in {"nested", "inner"} =>
          /\ mu[call[t].inst] = t
          /\ snap[t].h.on = "self" => ~snap[t].h.locks
          /\ snap[t].h.locks =>
                /\ snap[t].h.on = "fresh"
                /\ snap[t].h.m = "Add"
                /\ kind = "Set"
          /\ pc[t] = "nested" =>
                ~(snap[t].h.locks /\ snap[t].h.on = "self" /\ ~MutexFree(mu, call[t].inst))

\* C34 witness: a thread inside a.Union(b), holding both mutexes, is in
\* Add on the new set.
C34_Witness ==
    \E t \in ThreadIds :
       /\ kind = "Set"
       /\ call[t].m = "Union"
       /\ pc[t] = "inner"
       /\ snap[t].h = Callee("fresh", "Add", TRUE)
       /\ mu[1] = t /\ mu[2] = t

(***************************************************************************)
(* The shape of the BST's node graph (SpecBST).                            *)
(***************************************************************************)
\* The left and right pointers of node p that point at a node.
Children(nodes, p) == {nodes[p].left, nodes[p].right} \ {NIL}

\* The nodes reachable from the nodes in todo, each visited once.
RECURSIVE ReachSet(_, _, _)
ReachSet(nodes, todo, seen) ==
    IF todo = {} THEN seen
    ELSE LET p == CHOOSE q \in todo : TRUE
         IN  ReachSet(nodes, (todo \cup Children(nodes, p)) \ (seen \cup {p}), seen \cup {p})

\* The child pointers of reachable nodes that point at node n.
ParentLinks(b, n) ==
    {link \in ReachSet(b.nodes, {b.root} \ {NIL}, {}) \X {"left", "right"} :
        b.nodes[link[1]][link[2]] = n}

\* The nodes reachable from root form a tree.
IsTree(b) ==
    /\ b.root # NIL => ParentLinks(b, b.root) = {}
    /\ \A n \in ReachSet(b.nodes, {b.root} \ {NIL}, {}) :
          /\ n # b.root => Cardinality(ParentLinks(b, n)) = 1
          /\ n \notin ReachSet(b.nodes, Children(b.nodes, n), {})

\* C35: in every state reachable by Insert, Remove and Clear the nodes
\* reachable from root form a tree: every reachable node but root is the
\* left or right child of exactly one reachable node, root is nobody's
\* child and no node is its own descendant; this holds of the store as
\* each Insert and Remove leaves it, so every traversal and descent ends.
C35_ReachableNodesFormTree ==
    /\ IsTree(bst)
    /\ \A key \in Keys :
          /\ IsTree(BSTRemoveHeap(bst, key).b)
          /\ ~BSTInsertHeap(bst, key, 10).panic => IsTree(BSTInsertHeap(bst, key, 10).b)
    /\ IsTree(BSTClear(bst))
    /\ Len(BSTInOrderTraversal(bst)) = Len(bst.nodes)
    /\ Len(BSTPreOrderTraversal(bst)) = Len(bst.nodes)
    /\ Len(BSTPostOrderTraversal(bst)) = Len(bst.nodes)

\* C35 witness: after a successful Remove, the root has two children and
\* its left child has a right child, so that removing the root promotes a
\* node from deeper in the left subtree.
C35_Witness ==
    /\ nRem >= 1
    /\ bst.root # NIL
    /\ bst.nodes[bst.root].right # NIL
    /\ bst.nodes[bst.root].left # NIL
    /\ bst.nodes[bst.nodes[bst.root].left].right # NIL
    /\ ~BSTRemoveHeap(bst, bst.nodes[bst.root].key).err

(***************************************************************************)
(* A two-set method called with one Set as receiver and argument           *)
(* (SpecThreads, whose two-set calls include s.Union(s) and the like).     *)
(***************************************************************************)
\* Thread t has locked the receiver and is in Lock() on the argument, which
\* is the same Set: the mutex it waits for is the one it holds.
WaitsForOwnMutex(t) ==
    /\ pc[t] = "second"
    /\ call[t].other = call[t].inst
    /\ mu[call[t].other] = t

\* C36: a two-set operation called with the same Set as receiver and
\* argument (s.Union(s), s.Intersection(s), s.Difference(s), s.IsSubset(s),
\* s.IsSuperset(s), s.Equals(s)) terminates and releases the lock: the
\* calling thread is never left in Lock() waiting for a mutex that it holds
\* itself, which no other thread can release.
C36_SelfCallTerminates ==
    \A t \in ThreadIds : ~WaitsForOwnMutex(t)

(***************************************************************************)
(* SpecQueueMade: the circular-buffer Queue as either constructor makes    *)
(* it, NewEmpty (a backing array of QueueInitCap slots) or NewFromSlice of *)
(* a slice of at most MaxSlice items (a backing array as long as the       *)
(* slice, the empty slice included), then one caller's Enqueue, Dequeue,   *)
(* Peek, Clear and ToSlice calls.  hist.seq lists the queued items.        *)
(***************************************************************************)
InitQueueMade ==
    /\ BSTFresh
    /\ PQFresh(TRUE)
    /\ lst = ListNewEmpty
    /\ stk = StackNewEmpty
    /\ sets = [i \in Insts |-> SetNewEmpty]
    /\ aque = AQueueNewEmpty
    /\ cp = NoPair
    /\ ThreadsIdle("Queue")
    /\ fault = FALSE
    /\ \/ que = QueueNewEmpty /\ hist = NoHistory
       \/ \E slice \in Slices :
             /\ que = QueueNewFromSlice(slice)
             /\ hist = [seq |-> slice, grewWrapped |-> FALSE]

SpecQueueMade == InitQueueMade /\ [][NextQueue]_vars

\* C37: Enqueue succeeds on every reachable state of the circular-buffer
\* Queue, a queue built by NewFromSlice from an empty or nil slice
\* included: afterwards Size() has grown by one and the new item is the
\* last one in FIFO order.
C37_EnqueueAlwaysSucceeds ==
    \A newItem \in Items :
       /\ ~QueueEnqueue(que, newItem).panic
       /\ QueueSize(QueueEnqueue(que, newItem).q) = QueueSize(que) + 1
       /\ QueueDrain(QueueEnqueue(que, newItem).q) = Append(hist.seq, newItem)

\* front, rear and size of q fit its backing array of length L > 0.
IndicesFit(q) ==
    /\ 0 <= q.front /\ q.front < Len(q.items)
    /\ 0 <= q.rear /\ q.rear < Len(q.items)
    /\ 0 <= q.size /\ q.size <= Len(q.items)
    /\ q.rear = (q.front + q.size) % Len(q.items)

\* C40: in every reachable state of the circular-buffer Queue whose backing
\* array has length L > 0: 0 <= front < L, 0 <= rear < L, 0 <= size <= L
\* and rear = (front + size) mod L; an Enqueue changes L only when
\* size = L, and then doubles it, and grow keeps the FIFO content.
C40_IndicesFitBackingArray ==
    Len(que.items) > 0 =>
       /\ IndicesFit(que)
       /\ \A newItem \in Items :
             /\ IndicesFit(QueueEnqueue(que, newItem).q)
             /\ Len(QueueEnqueue(que, newItem).q.items) # Len(que.items) =>
                   /\ que.size = Len(que.items)
                   /\ Len(QueueEnqueue(que, newItem).q.items) = 2 * Len(que.items)
             /\ que.size < Len(que.items) =>
                   Len(QueueEnqueue(que, newItem).q.items) = Len(que.items)
       /\ IndicesFit(QueueDequeue(que).q)
       /\ Len(QueueDequeue(que).q.items) = Len(que.items)
       /\ IndicesFit(QueueClear(que))
       /\ Len(QueueClear(que).items) = Len(que.items)
       /\ que.size = Len(que.items) =>
             /\ Len(QueueGrow(que).items) = 2 * Len(que.items)
             /\ IndicesFit(QueueGrow(que))
             /\ QueueDrain(QueueGrow(que)) = hist.seq

\* C40 witness: a full queue wrapped around the end of a backing array that
\* is longer than any slice given to NewFromSlice and has grown while
\* wrapped before; the next Enqueue grows it again.
C40_Witness ==
    /\ hist.grewWrapped
    /\ que.size = Len(que.items)
    /\ que.front > 0
    /\ que.rear = que.front
    /\ Len(que.items) > MaxSlice

(***************************************************************************)
(* Remove against Search on the same tree (SpecBST).                       *)
(***************************************************************************)
\* C38: in every reachable BST state and for every key k, Remove(k)
\* succeeds exactly when Search(k) would succeed, and the value it returns
\* is the value Search(k) would have returned immediately before: both act
\* on the first equal-key node on the descent path, also when duplicate
\* keys exist.
C38_RemoveAgreesWithSearch ==
    \A key \in Keys :
       /\ BSTRemove(bst, key).err = BSTSearch(bst, key).err
       /\ BSTRemove(bst, key).val = BSTSearch(bst, key).val
       /\ BSTRemoveHeap(bst, key).err = BSTSearch(bst, key).err
       /\ BSTRemoveHeap(bst, key).val = BSTSearch(bst, key).val

\* C38 witness: after a successful Remove the tree holds two nodes with
\* the same key and different values, one below the other, and a key that
\* is absent.
C38_Witness ==
    /\ nRem >= 1
    /\ \E n \in 1..Len(bst.nodes) :
          \E d \in Subtree(bst, n) \ {n} :
             /\ bst.nodes[d].key = bst.nodes[n].key
             /\ bst.nodes[d].val # bst.nodes[n].val
    /\ \E key \in Keys : BSTSearch(bst, key).err

(***************************************************************************)
(* The shape of the doubly linked list.                                    *)
(***************************************************************************)

\* The nodes met following prev from p, until nil or a node met before.
RECURSIVE PrevChain(_, _, _)
PrevChain(nodes, p, seen) ==
    IF p = NIL \/ (\E i \in 1..Len(seen) : seen[i] = p) THEN seen
    ELSE PrevChain(nodes, nodes[p].prev, Append(seen, p))

\* front, back, size and the next/prev pointers of l describe one chain.
WellLinked(l) ==
    /\ Len(NextChain(l.nodes, l.front, <<>>)) = l.size
    /\ PrevChain(l.nodes, l.back, <<>>) = Reversed(NextChain(l.nodes, l.front, <<>>))
    /\ (l.front = NIL /\ l.back = NIL) <=> (l.size = 0)
    /\ l.size > 0 =>
          /\ l.front # NIL
          /\ l.back # NIL
          /\ NextChain(l.nodes, l.front, <<>>)[l.size] = l.back
          /\ l.nodes[l.front].prev = NIL
          /\ l.nodes[l.back].next = NIL

\* C39: in every state reachable by the List operations (insert and remove
\* at front, back and position, Reverse, Clear), following next from front
\* visits exactly size nodes and ends at back, following prev from back
\* visits the same nodes in reverse order, front.prev and back.next are
\* absent, and front and back are both absent exactly when size is 0.  The
\* same holds for what every private helper leaves behind before the
\* unreachable nodes are dropped.
C39_ListIsWellLinked ==
    /\ WellLinked(lst)
    /\ WellLinked(ListReverse(lst))
    /\ WellLinked(ListClear(lst))
    /\ WellLinked(ListRemoveFrontInner(lst).l)
    /\ WellLinked(ListRemoveBackInner(lst).l)
    /\ \A index \in 0..MaxEnq : WellLinked(ListRemovePositionHeap(lst, index).l)
    /\ \A newItem \in Items : \A position \in 0..MaxEnq :
          WellLinked(ListInsertPositionHeap(lst, newItem, position).l)

\* C39 witness: a list of at least three nodes reached by removing an item
\* from a position, whose order differs from its reverse.
C39_Witness ==
    /\ ListSize(lst) >= 3
    /\ ~res[1].err
    /\ res[1].val # ZeroValue
    /\ Contents(ListReverse(lst)) # Contents(lst)
    /\ WellLinked(lst)

=============================================================================
